---- MODULE Spec2Model ----
(***************************************************************************)
(* Model of the vibe-runner server core: the procedural chunk generator,   *)
(* the chunk manager (cache), the player registry (GameState), the client  *)
(* hub (fan-out), the session handler and the game ticker.                 *)
(*                                                                         *)
(* Coordinates are whole pixels.  The generator's rand.Rand is modelled as *)
(* a seeded 16-bit linear congruential generator: what matters to the      *)
(* program is that it is a deterministic function of the seed, that        *)
(* Intn(n) is in 0..n-1 and that Float64() is in [0,1).                    *)
(***************************************************************************)
EXTENDS Integers, Sequences, FiniteSets, TLC

\* ------------------------------------------------------------------ bounds
MaxSeed == 199          \* master seeds are 0..MaxSeed in SpecGen
MaxChunkID == 2         \* chunk indices are 0..MaxChunkID
MaxGenCalls == 2        \* repeated GenerateChunk calls on one input
MaxCMSeed == 1          \* chunk managers are built with a seed in 0..MaxCMSeed
MaxCMCalls == 3         \* chunk manager calls started in one run of SpecCM
MaxPlayers == 2         \* identities handed out in one run (joins, hub clients)
MaxNameLen == 31
MaxTicks == 1           \* ticks of the game loop in one run of Spec

\* ------------------------------------------------- generation/chunk.go
ChunkSize == 5000
ObstacleTypeTall == 1
ObstacleTypeLow == 2
ObstacleTypeSpike == 3
MinObstaclesPerChunk == 3
MaxObstaclesPerChunk == 8
ObstacleSpacing == 300
StartMargin == 500
EndMargin == 500
OffsetRange == 200

\* ------------------------------------------- game/player.go, game/ticker.go
SpawnX == 100
SpawnY == 440
Gravity == 1200
JumpVelocity == -600
GroundY == 440
TickRate == 20

\* ------------------------------------------------- network/client_hub.go
SendChanCap == 10

Managers == {1, 2}      \* independently constructed ChunkManagers
Callers == {1, 2}       \* goroutines calling into the chunk managers
NoCaller == 0

PlayerIDs == 1..MaxPlayers

Sessions == {1, 2}      \* connections handled by HandleClient in Spec
MainIDs == {1, 2}       \* the identities getNextPlayerID hands out in Spec
ServerCM == 1           \* the chunk manager main() hands to the ticker
PreGeneratedChunks == 3 \* main() generates chunks 0..2 before the ticker starts
NoPlayer == 0           \* the zero value of HandleClient's playerID
NilPlayer == 0          \* the nil *Player
RegCallers == {1, 2}    \* goroutines calling into the registry in SpecReg

HubClients == {1, 2}    \* the identities SpecHub registers with the hub
HubChunkIDs == {0}      \* the chunks SpecHub broadcasts, each at most once

VARIABLES genSeed, genChunkID, genCalls,
          cmSeed, chunks, cmMu, cmPC, cmArg, cmCalls, cmGenCount, cmEvictCount, cmLog,
          players, playerObj,
          clients, conn, hubReaders, closeCount, hubPanic, wPC, wMsg,
          tkPC, bcMsg, bcTodo, bcDropped, bcRet, hubChunksSent, now,
          pl, plPrev, plOp, phPC, phV, jpPC, jpObs,
          regWriter, regReaders, rCall,
          playerIDCounter, sPC, sPlayerID, sJoinID, sJoined, sSeed,
          tickCount, tkSnap, tkTodo, lastBroadcastedChunk, tkStateCalls, tkChunkLog,
          rg,
          nm,
          wLog,
          regAfter

genVars == <<genSeed, genChunkID, genCalls>>
cmVars == <<cmSeed, chunks, cmMu, cmPC, cmArg, cmCalls, cmGenCount, cmEvictCount, cmLog>>
regVars == <<players, playerObj>>
hubVars == <<clients, conn, hubReaders, closeCount, hubPanic, wPC, wMsg>>
bcVars == <<tkPC, bcMsg, bcTodo, bcDropped, bcRet, now>>
harnessVars == <<hubChunksSent>>
plVars == <<pl, plPrev, plOp>>
raceVars == <<phPC, phV, jpPC, jpObs>>
regLockVars == <<regWriter, regReaders, rCall>>
castVars == <<regAfter>>
orderVars == <<wLog>>
nameVars == <<nm>>
rangeVars == <<rg>>
sessVars == <<playerIDCounter, sPC, sPlayerID, sJoinID, sJoined, sSeed>>
tickVars == <<tickCount, tkSnap, tkTodo, lastBroadcastedChunk, tkStateCalls, tkChunkLog>>
vars == <<genVars, cmVars, regVars, hubVars, bcVars, harnessVars, plVars, raceVars, sessVars, tickVars, regLockVars, rangeVars, nameVars, orderVars, castVars>>
genOthers == <<cmVars, regVars, hubVars, bcVars, harnessVars, plVars, raceVars, sessVars, tickVars, regLockVars, rangeVars, nameVars, orderVars, castVars>>
cmOthers == <<genVars, regVars, hubVars, bcVars, harnessVars, plVars, raceVars, sessVars, tickVars, regLockVars, rangeVars, nameVars, orderVars, castVars>>

\* rand.Rand: state space, step, and the two draws the generator uses.
RngMod == 65536
RngNext(s) == (s * 25173 + 13849) % RngMod
RngIntn(s, n) == (s \div 256) % n
RngFloatTimes(s, k) == (s * k) \div RngMod

\* a seed that also depends on state shared between calls
ChunkSeedShared(masterSeed, chunkID) ==
  (masterSeed * 7919 + chunkID * 10473 + 4241 + 977 * cmCalls) % RngMod

\* sha256(masterSeed + "-" + chunkID), first 8 bytes, as the PRNG seed.
ChunkSeed(masterSeed, chunkID) == (masterSeed * 7919 + chunkID * 10473 + 4241) % RngMod

\* The placement loop of GenerateChunk; r is the PRNG state before the
\* iteration's first draw.
RECURSIVE PlaceObstacles(_, _, _, _, _, _)
PlaceObstacles(i, obstacleCount, r, currentX, chunkEndX, obstacles) ==
  IF ~(i < obstacleCount /\ currentX < chunkEndX - EndMargin)
  THEN obstacles
  ELSE LET r1 == RngNext(r)
           obstacleType == 1 + RngIntn(r1, 3)
           r2 == RngNext(r1)
           xOffset == RngFloatTimes(r2, OffsetRange)
           obstacleX == currentX + xOffset
       IN IF obstacleX >= chunkEndX
          THEN obstacles
          ELSE LET r3 == RngNext(r2)
                   step == ObstacleSpacing + RngFloatTimes(r3, OffsetRange)
               IN PlaceObstacles(i + 1, obstacleCount, r3, currentX + step, chunkEndX,
                                 Append(obstacles, [Type |-> obstacleType, X |-> obstacleX, Y |-> 0]))

\* obstacle positions relative to the chunk instead of absolute
GenerateChunkRelative(masterSeed, chunkID) ==
  LET r0 == RngNext(ChunkSeed(masterSeed, chunkID))
      obstacleCount == MinObstaclesPerChunk
                         + RngIntn(r0, MaxObstaclesPerChunk - MinObstaclesPerChunk + 1)
  IN [ID |-> chunkID,
      Obstacles |-> PlaceObstacles(0, obstacleCount, r0, StartMargin, ChunkSize, <<>>)]

\* an obstacle count drawn from one value too many
GenerateChunkWideCount(masterSeed, chunkID) ==
  LET r0 == RngNext(ChunkSeed(masterSeed, chunkID))
      obstacleCount == MinObstaclesPerChunk
                         + RngIntn(r0, MaxObstaclesPerChunk - MinObstaclesPerChunk + 2)
  IN [ID |-> chunkID,
      Obstacles |-> PlaceObstacles(0, obstacleCount, r0, chunkID * ChunkSize + StartMargin,
                                   (chunkID + 1) * ChunkSize, <<>>)]

GenerateChunk(masterSeed, chunkID) ==
  LET r0 == RngNext(ChunkSeed(masterSeed, chunkID))
      obstacleCount == MinObstaclesPerChunk
                         + RngIntn(r0, MaxObstaclesPerChunk - MinObstaclesPerChunk + 1)
      chunkStartX == chunkID * ChunkSize
      chunkEndX == (chunkID + 1) * ChunkSize
  IN [ID |-> chunkID,
      Obstacles |-> PlaceObstacles(0, obstacleCount, r0, chunkStartX + StartMargin,
                                   chunkEndX, <<>>)]

\* ------------------------------------------- generation: ChunkManager
\* chunks[m] is the cache map of manager m: a function from the cached
\* chunk IDs to chunk instances.  inst identifies the allocation (the
\* pointer): the n-th chunk manager m generated for that ID.
ChunkIDs == 0..MaxChunkID

NewChunkManager(masterSeed) == [masterSeed |-> masterSeed, chunks |-> <<>>]

ChunkIDOf(x) == x \div ChunkSize

\* no second lookup: the write-locked path always generates
RecheckSkipped(m, chunkID) == FALSE

\* the second lookup of GetOrGenerateChunk, made under the write lock
RecheckExists(m, chunkID) == chunkID \in DOMAIN chunks[m]

NoArg == [m |-> 1, id |-> 0, x |-> 0, kb |-> 0, thr |-> 0, e0 |-> 0]

\* the caller's return: its locals die, the returned chunk is logged with
\* the eviction counts of its index at entry (e0) and at return (e1)
CMReturn(c, m, chunkID, e0, chunk) ==
  /\ cmLog' = cmLog \cup {[m |-> m, id |-> chunkID, chunk |-> chunk, e0 |-> e0,
                           e1 |-> cmEvictCount[m][chunkID]]}
  /\ cmPC' = [cmPC EXCEPT ![c] = "idle"]
  /\ cmArg' = [cmArg EXCEPT ![c] = NoArg]

\* a caller enters GetOrGenerateChunk(chunkID) on manager m:
\* RLock; chunk, exists := cm.chunks[chunkID]; RUnlock; return if exists
GetOrGenerateChunk_Read(c, m, chunkID) ==
  /\ cmPC[c] = "idle"
  /\ cmCalls < MaxCMCalls
  /\ cmCalls' = cmCalls + 1
  /\ cmMu[m] = NoCaller
  /\ IF chunkID \in DOMAIN chunks[m]
     THEN CMReturn(c, m, chunkID, cmEvictCount[m][chunkID], chunks[m][chunkID])
     ELSE /\ cmPC' = [cmPC EXCEPT ![c] = "get_lock"]
          /\ cmArg' = [cmArg EXCEPT ![c] = [m |-> m, id |-> chunkID, x |-> 0, kb |-> 0, thr |-> 0,
                                             e0 |-> cmEvictCount[m][chunkID]]]
          /\ UNCHANGED cmLog
  /\ UNCHANGED <<cmSeed, chunks, cmMu, cmGenCount, cmEvictCount, cmOthers>>

\* cm.mu.Lock()
GetOrGenerateChunk_Lock(c) ==
  /\ cmPC[c] = "get_lock"
  /\ cmMu[cmArg[c].m] = NoCaller
  /\ cmMu' = [cmMu EXCEPT ![cmArg[c].m] = c]
  /\ cmPC' = [cmPC EXCEPT ![c] = "get_locked"]
  /\ UNCHANGED <<cmSeed, chunks, cmArg, cmCalls, cmGenCount, cmEvictCount, cmLog, cmOthers>>

\* a generator whose random state is carried over from the manager's earlier
\* generations of the index
GenerateDrifting(m, chunkID) ==
  GenerateChunk(cmSeed[m] + cmGenCount[m][chunkID], chunkID)

\* chunk = GenerateChunk(cm.masterSeed, chunkID)
GenerateForManager(m, chunkID) == GenerateChunk(cmSeed[m], chunkID)

\* double-check, generate and cache, deferred Unlock
GetOrGenerateChunk_Locked(c) ==
  LET m == cmArg[c].m
      chunkID == cmArg[c].id
      generated == GenerateForManager(m, chunkID)
      fresh == [ID |-> generated.ID, Obstacles |-> generated.Obstacles,
                inst |-> cmGenCount[m][chunkID] + 1]
  IN /\ cmPC[c] = "get_locked"
     /\ cmMu[m] = c
     /\ IF RecheckExists(m, chunkID)
        THEN /\ CMReturn(c, m, chunkID, cmArg[c].e0, chunks[m][chunkID])
             /\ UNCHANGED <<chunks, cmGenCount>>
        ELSE /\ chunks' = [chunks EXCEPT ![m] =
                             [k \in DOMAIN chunks[m] \cup {chunkID} |->
                                IF k = chunkID THEN fresh ELSE chunks[m][k]]]
             /\ cmGenCount' = [cmGenCount EXCEPT ![m][chunkID] = @ + 1]
             /\ CMReturn(c, m, chunkID, cmArg[c].e0, fresh)
     /\ cmMu' = [cmMu EXCEPT ![m] = NoCaller]
     /\ UNCHANGED <<cmSeed, cmCalls, cmEvictCount, cmOthers>>

\* a cleanup that also deletes the chunk at the threshold
AtOrBelowThreshold(chunkID, cleanupThreshold) == chunkID <= cleanupThreshold

\* if chunkID < cleanupThreshold
BelowThreshold(chunkID, cleanupThreshold) == chunkID < cleanupThreshold

\* trailing positions the callers of CleanupBehind pass: the first and the
\* last unit of the second and of the fourth chunk
CleanupXs ==
  {t * ChunkSize + d : t \in {1, 3}, d \in {0, ChunkSize - 1}}

\* the cache c after CleanupBehind(minPlayerX, keepBehind)
CleanupBehind(c, minPlayerX, keepBehind) ==
  [k \in {j \in DOMAIN c : ~BelowThreshold(j, ChunkIDOf(minPlayerX) - keepBehind)} |-> c[k]]

\* a caller enters CleanupBehind(minPlayerX, keepBehind) on manager m:
\* computes the threshold, then cm.mu.Lock()
CleanupBehind_Lock(c, m, minPlayerX, keepBehind) ==
  LET trailingChunkID == ChunkIDOf(minPlayerX)
      cleanupThreshold == trailingChunkID - keepBehind
  IN /\ cmPC[c] = "idle"
     /\ cmCalls < MaxCMCalls
     /\ cmCalls' = cmCalls + 1
     /\ cmMu[m] = NoCaller
     /\ cmMu' = [cmMu EXCEPT ![m] = c]
     /\ cmPC' = [cmPC EXCEPT ![c] = "clean_locked"]
     /\ cmArg' = [cmArg EXCEPT ![c] = [m |-> m, id |-> 0, x |-> minPlayerX, kb |-> keepBehind,
                                        thr |-> cleanupThreshold, e0 |-> 0]]
     /\ UNCHANGED <<cmSeed, chunks, cmGenCount, cmEvictCount, cmLog, cmOthers>>

\* delete every cached chunk below the threshold, deferred Unlock
CleanupBehind_Locked(c) ==
  LET m == cmArg[c].m
      gone == {k \in DOMAIN chunks[m] : BelowThreshold(k, cmArg[c].thr)}
  IN /\ cmPC[c] = "clean_locked"
     /\ cmMu[m] = c
     /\ chunks' = [chunks EXCEPT ![m] = [k \in DOMAIN chunks[m] \ gone |-> chunks[m][k]]]
     /\ cmEvictCount' = [cmEvictCount EXCEPT ![m] =
                           [k \in ChunkIDs |-> IF k \in gone THEN @[k] + 1 ELSE @[k]]]
     /\ cmMu' = [cmMu EXCEPT ![m] = NoCaller]
     /\ cmPC' = [cmPC EXCEPT ![c] = "idle"]
     /\ cmArg' = [cmArg EXCEPT ![c] = NoArg]
     /\ UNCHANGED <<cmSeed, cmCalls, cmGenCount, cmLog, cmOthers>>

\* ------------------------------------------------------- game: Player
\* playerObj[id] is the Player object created for identity id (the pointer
\* the registry, the snapshots and the sessions share).
\* a player created in the air at the origin
NewPlayerAirborne(id) ==
  [ID |-> id, X |-> 0, Y |-> 0, VelocityY |-> 0,
   IsGrounded |-> FALSE, IsAlive |-> TRUE]

NewPlayer(id) ==
  [ID |-> id, X |-> SpawnX, Y |-> SpawnY, VelocityY |-> 0,
   IsGrounded |-> TRUE, IsAlive |-> TRUE]

Kill(p) == [p EXCEPT !.IsAlive = FALSE]

\* a jump that does not look at the player's state
JumpUnguarded(p) == [p EXCEPT !.VelocityY = JumpVelocity, !.IsGrounded = FALSE]

Jump(p) ==
  IF p.IsGrounded /\ p.IsAlive
  THEN [p EXCEPT !.VelocityY = JumpVelocity, !.IsGrounded = FALSE]
  ELSE p

\* ------------------------------------------------------- game: ticker
\* Gravity * DeltaTime is 60 and every velocity is a multiple of 60, so
\* VelocityY * DeltaTime is a whole number of pixels (and the float64
\* arithmetic of the code is exact on these values).
\* a physics step without gravity
updatePlayerPhysicsNoGravity(p) ==
  LET velocityY == p.VelocityY
      y == p.Y + velocityY \div TickRate
  IN IF y >= GroundY
     THEN [p EXCEPT !.Y = GroundY, !.VelocityY = 0, !.IsGrounded = TRUE]
     ELSE [p EXCEPT !.Y = y, !.VelocityY = velocityY, !.IsGrounded = FALSE]

updatePlayerPhysics(p) ==
  LET velocityY == p.VelocityY + Gravity \div TickRate
      y == p.Y + velocityY \div TickRate
  IN IF y >= GroundY
     THEN [p EXCEPT !.Y = GroundY, !.VelocityY = 0, !.IsGrounded = TRUE]
     ELSE [p EXCEPT !.Y = y, !.VelocityY = velocityY, !.IsGrounded = FALSE]

\* a loop body that updates dead players too
TickPlayerAll(p) == updatePlayerPhysics(p)

\* the body of the ticker's loop over the snapshot
TickPlayer(p) == IF ~p.IsAlive THEN p ELSE updatePlayerPhysics(p)

\* -------------------------------------------------- game: GameState
\* players is the key set of the registry map.
GetAllPlayers == players

\* a lookup that never reports a missing player
GetPlayerAny(playerID) == playerID

\* g.players[playerID]: the player, or nil for a missing key
GetPlayer(playerID) == IF playerID \in players THEN playerID ELSE NilPlayer

GetPlayerCount == Cardinality(players)

AddPlayer(playerID) == players \cup {playerID}

\* a removal that leaves the registry as it is
RemovePlayerKept(playerID) == players

RemovePlayer(playerID) == players \ {playerID}

\* ------------------------------------------------- network: ClientHub
\* clients is the key set of the hub map; conn[id] is the ClientConnection
\* created for identity id; hubReaders counts the holders of h.mu.RLock.
NoMsg == [E |-> "none"]
NewConn == [SendChan |-> <<>>, closed |-> FALSE]

\* no mutual exclusion between h.mu.Lock and h.mu.RLock
HubNoLock == TRUE

\* h.mu.Lock() is granted while no broadcast holds h.mu.RLock()
HubWriteLockFree == hubReaders = 0

\* a buffered channel of capacity SendChanCap accepts a send without
\* blocking while it holds fewer messages than its capacity
SendChanOverfull(q) == Len(q) <= SendChanCap

SendChanHasRoom(q) == Len(q) < SendChanCap

\* a channel that hands the newest message out first
ChanSendFront(q, m) == <<m>> \o q

\* client.SendChan <- messageBytes: a buffered channel is a FIFO queue
ChanSend(q, m) == Append(q, m)

\* AddClient: under h.mu.Lock, create the connection, store it, start
\* its write goroutine.
AddClient(playerID) ==
  /\ HubWriteLockFree
  /\ conn' = [conn EXCEPT ![playerID] = NewConn]
  /\ clients' = clients \cup {playerID}
  /\ wPC' = [wPC EXCEPT ![playerID] = "recv"]
  /\ UNCHANGED <<hubReaders, closeCount, hubPanic, wMsg>>

\* a removal that deletes the map entry and leaves the channel open
RemoveClientKeepOpen(playerID) ==
  /\ HubWriteLockFree
  /\ clients' = clients \ {playerID}
  /\ UNCHANGED <<conn, closeCount, hubPanic, hubReaders, wPC, wMsg>>

\* RemoveClient: under h.mu.Lock, close the send channel once and delete
\* the map entry; nothing to do for an identity that is not in the map.
RemoveClient(playerID) ==
  /\ HubWriteLockFree
  /\ IF playerID \notin clients
     THEN UNCHANGED <<clients, conn, closeCount, hubPanic>>
     ELSE /\ IF ~conn[playerID].closed
             THEN /\ conn' = [conn EXCEPT ![playerID].closed = TRUE]
                  /\ closeCount' = [closeCount EXCEPT ![playerID] = @ + 1]
             ELSE UNCHANGED <<conn, closeCount>>
          /\ clients' = clients \ {playerID}
          /\ UNCHANGED hubPanic
  /\ UNCHANGED <<hubReaders, wPC, wMsg>>

\* the filter of BroadcastState's loop over the snapshot
IncludeAlways(p) == TRUE

IncludeInState(p) == p.IsAlive

PlayerStates(snapshot) ==
  {[I |-> playerObj[id].ID, X |-> playerObj[id].X, Y |-> playerObj[id].Y] :
     id \in {i \in snapshot : IncludeInState(playerObj[i])}}

\* BroadcastState up to json.Marshal: snapshot, filter, message
BroadcastState_Build(ret) ==
  /\ bcMsg' = [E |-> "state", T |-> now, P |-> PlayerStates(GetAllPlayers)]
  /\ tkPC' = "bc_lock"
  /\ bcRet' = ret
  /\ UNCHANGED <<bcTodo, bcDropped, now>>

\* convertChunkToObstacles: the chunk's obstacles in network format
ConvertChunkToObstacles(chunkData) ==
  [i \in 1..Len(chunkData.Obstacles) |->
     [T |-> chunkData.Obstacles[i].Type, X |-> chunkData.Obstacles[i].X,
      Y |-> chunkData.Obstacles[i].Y]]

\* BroadcastChunk up to json.Marshal
BroadcastChunk_Build(chunkID, chunkData, ret) ==
  /\ bcMsg' = [E |-> "chunk", ID |-> chunkID, Obs |-> ConvertChunkToObstacles(chunkData)]
  /\ tkPC' = "bc_lock"
  /\ bcRet' = ret
  /\ UNCHANGED <<bcTodo, bcDropped, now>>

\* h.mu.RLock() and the start of the range over h.clients
Broadcast_RLock ==
  /\ tkPC = "bc_lock"
  /\ hubReaders' = hubReaders + 1
  /\ bcTodo' = clients
  /\ bcDropped' = {}
  /\ tkPC' = "bc_send"
  /\ UNCHANGED <<bcMsg, bcRet, now>>
  /\ UNCHANGED <<clients, conn, closeCount, hubPanic, wPC, wMsg>>

\* one iteration: select { case client.SendChan <- messageBytes: default: }
Broadcast_Send(playerID) ==
  /\ tkPC = "bc_send"
  /\ playerID \in bcTodo
  /\ bcTodo' = bcTodo \ {playerID}
  /\ IF conn[playerID].closed
     THEN /\ hubPanic' = TRUE
          /\ UNCHANGED <<conn, bcDropped>>
     ELSE /\ IF SendChanHasRoom(conn[playerID].SendChan)
             THEN /\ conn' = [conn EXCEPT ![playerID].SendChan = ChanSend(@, bcMsg)]
                  /\ UNCHANGED bcDropped
             ELSE /\ bcDropped' = bcDropped \cup {playerID}
                  /\ UNCHANGED conn
          /\ UNCHANGED hubPanic
  /\ UNCHANGED <<tkPC, bcMsg, bcRet, now>>
  /\ UNCHANGED <<clients, hubReaders, closeCount, wPC, wMsg>>

\* the range is over, deferred h.mu.RUnlock(), return to the caller
Broadcast_RUnlock ==
  /\ tkPC = "bc_send"
  /\ bcTodo = {}
  /\ hubReaders' = hubReaders - 1
  /\ tkPC' = bcRet
  /\ bcMsg' = NoMsg
  /\ bcDropped' = {}
  /\ UNCHANGED <<bcTodo, bcRet, now>>
  /\ UNCHANGED <<clients, conn, closeCount, hubPanic, wPC, wMsg>>

\* writeLoop: receive the next message; the range ends when the channel
\* is closed and drained
WriteLoop_Recv(playerID) ==
  /\ wPC[playerID] = "recv"
  /\ IF conn[playerID].SendChan # <<>>
     THEN /\ wMsg' = [wMsg EXCEPT ![playerID] = Head(conn[playerID].SendChan)]
          /\ conn' = [conn EXCEPT ![playerID].SendChan = Tail(@)]
          /\ wPC' = [wPC EXCEPT ![playerID] = "write"]
     ELSE /\ conn[playerID].closed
          /\ wPC' = [wPC EXCEPT ![playerID] = "exited"]
          /\ UNCHANGED <<wMsg, conn>>
  /\ UNCHANGED <<clients, hubReaders, closeCount, hubPanic>>

\* writeLoop: break if closed, else set the deadline and write; a failed
\* write (ok = FALSE) ends the loop
WriteLoop_Write(playerID, ok) ==
  /\ wPC[playerID] = "write"
  /\ wPC' = [wPC EXCEPT ![playerID] =
               IF conn[playerID].closed \/ ~ok THEN "exited" ELSE "recv"]
  /\ wMsg' = [wMsg EXCEPT ![playerID] = NoMsg]
  /\ UNCHANGED <<clients, conn, hubReaders, closeCount, hubPanic>>

\* --------------------------------------------------- SpecGen: the generator
GenIdle ==
  /\ genSeed = 0
  /\ genChunkID = 0
  /\ genCalls = <<>>

CMIdle ==
  /\ chunks = [m \in Managers |-> NewChunkManager(cmSeed[m]).chunks]
  /\ cmMu = [m \in Managers |-> NoCaller]
  /\ cmPC = [c \in Callers |-> "idle"]
  /\ cmArg = [c \in Callers |-> NoArg]
  /\ cmCalls = 0
  /\ cmGenCount = [m \in Managers |-> [k \in ChunkIDs |-> 0]]
  /\ cmEvictCount = [m \in Managers |-> [k \in ChunkIDs |-> 0]]
  /\ cmLog = {}

NoName == [pc |-> "idle", in |-> <<>>, out |-> <<>>]

NameIdle == nm = NoName

OrderIdle == wLog = [id \in PlayerIDs |-> <<>>]

CastIdle == regAfter = [id \in PlayerIDs |-> -1]

NoRange == [pc |-> "idle"]

RangeIdle == rg = NoRange

NoCall == [pc |-> "idle"]

RegIdle ==
  /\ regWriter = NoCaller
  /\ regReaders = {}
  /\ rCall = [c \in RegCallers |-> NoCall]
  /\ players = {}
  /\ playerObj = [id \in PlayerIDs |-> NewPlayer(id)]

HubIdle ==
  /\ clients = {}
  /\ conn = [id \in PlayerIDs |-> NewConn]
  /\ hubReaders = 0
  /\ closeCount = [id \in PlayerIDs |-> 0]
  /\ hubPanic = FALSE
  /\ wPC = [id \in PlayerIDs |-> "none"]
  /\ wMsg = [id \in PlayerIDs |-> NoMsg]

RaceIdle ==
  /\ phPC = "idle"
  /\ phV = 0
  /\ jpPC = "idle"
  /\ jpObs = "none"

PlIdle ==
  /\ pl = NewPlayer(1)
  /\ plPrev = NewPlayer(1)
  /\ plOp = "new"
  /\ RaceIdle

\* no welcome received yet
NoSeed == [prefix |-> "", n |-> 0]

\* seed := fmt.Sprintf("vibe-runner-%d", playerID)
WelcomeSeed(playerID) == [prefix |-> "vibe-runner-", n |-> playerID]

SessIdle ==
  /\ playerIDCounter = 0
  /\ sPC = [s \in Sessions |-> "read"]
  /\ sPlayerID = [s \in Sessions |-> NoPlayer]
  /\ sJoinID = [s \in Sessions |-> NoPlayer]
  /\ sJoined = [s \in Sessions |-> {}]
  /\ sSeed = [s \in Sessions |-> NoSeed]

TickIdle ==
  /\ tickCount = 0
  /\ tkSnap = {}
  /\ tkTodo = {}
  /\ lastBroadcastedChunk = -1
  /\ tkStateCalls = 0
  /\ tkChunkLog = <<>>

BcIdle ==
  /\ tkPC = "idle"
  /\ bcMsg = NoMsg
  /\ bcTodo = {}
  /\ bcDropped = {}
  /\ bcRet = "idle"
  /\ hubChunksSent = {}
  /\ now = 0

GenInit ==
  /\ PlIdle
  /\ SessIdle
  /\ TickIdle
  /\ genSeed \in 0..MaxSeed
  /\ genChunkID \in 0..MaxChunkID
  /\ genCalls = <<>>
  /\ cmSeed = [m \in Managers |-> 0]
  /\ CMIdle
  /\ RegIdle
  /\ HubIdle
  /\ BcIdle
  /\ RangeIdle
  /\ NameIdle
  /\ OrderIdle
  /\ CastIdle

GenCall ==
  /\ Len(genCalls) < MaxGenCalls
  /\ genCalls' = Append(genCalls, GenerateChunk(genSeed, genChunkID))
  /\ UNCHANGED <<genSeed, genChunkID, genOthers>>

GenNext == GenCall

SpecGen == GenInit /\ [][GenNext]_vars

\* ------------------------------------------- SpecCM: the chunk managers
CMInit ==
  /\ PlIdle
  /\ SessIdle
  /\ TickIdle
  /\ GenIdle
  /\ cmSeed \in [Managers -> 0..MaxCMSeed]
  /\ CMIdle
  /\ RegIdle
  /\ HubIdle
  /\ BcIdle
  /\ RangeIdle
  /\ NameIdle
  /\ OrderIdle
  /\ CastIdle

CMNext ==
  \/ \E c \in Callers, m \in Managers, k \in ChunkIDs : GetOrGenerateChunk_Read(c, m, k)
  \/ \E c \in Callers : GetOrGenerateChunk_Lock(c)
  \/ \E c \in Callers : GetOrGenerateChunk_Locked(c)
  \/ \E c \in Callers, m \in Managers, minPlayerX \in CleanupXs, keepBehind \in 0..1 :
        CleanupBehind_Lock(c, m, minPlayerX, keepBehind)
  \/ \E c \in Callers : CleanupBehind_Locked(c)

SpecCM == CMInit /\ [][CMNext]_vars

\* ------------------------------------------ SpecName: sanitizePlayerName
\* A name is the sequence of its bytes; the names a client sends are over
\* a letter, a blank and a character that html.EscapeString replaces.
\* nm is a call of sanitizePlayerName: its argument and its result.
nameOthers == <<genVars, cmVars, regVars, hubVars, bcVars, harnessVars, plVars, raceVars,
                sessVars, tickVars, regLockVars, rangeVars, orderVars, castVars>>

NameLimit == 30

DefaultName == <<"P", "l", "a", "y", "e", "r">>

Repeat(c, k) == [i \in 1..k |-> c]

\* the raw names: a run of one character between optional blanks
RawNames ==
  {Repeat(" ", l) \o Repeat(c, k) \o Repeat(" ", t) :
     l \in 0..1, t \in 0..1, c \in {"a", " ", "<"}, k \in 0..MaxNameLen}

RECURSIVE TrimLeft(_)
TrimLeft(name) ==
  IF name # <<>> /\ Head(name) = " " THEN TrimLeft(Tail(name)) ELSE name

RECURSIVE TrimRight(_)
TrimRight(name) ==
  IF name # <<>> /\ name[Len(name)] = " "
  THEN TrimRight(SubSeq(name, 1, Len(name) - 1))
  ELSE name

\* strings.TrimSpace
TrimSpace(name) == TrimRight(TrimLeft(name))

\* html.EscapeString on one byte: "<" becomes "&lt;"
EscapeChar(c) == IF c = "<" THEN <<"&", "l", "t", ";">> ELSE <<c>>

RECURSIVE EscapeString(_)
EscapeString(name) ==
  IF name = <<>> THEN <<>> ELSE EscapeChar(Head(name)) \o EscapeString(Tail(name))

sanitizePlayerName(name) ==
  LET trimmed == TrimSpace(name)
      limited == IF Len(trimmed) > NameLimit THEN SubSeq(trimmed, 1, NameLimit) ELSE trimmed
      escaped == EscapeString(limited)
  IN IF escaped = <<>> THEN DefaultName ELSE escaped

NameInit ==
  /\ PlIdle
  /\ SessIdle
  /\ TickIdle
  /\ GenIdle
  /\ cmSeed = [m \in Managers |-> 0]
  /\ CMIdle
  /\ RegIdle
  /\ HubIdle
  /\ BcIdle
  /\ RangeIdle
  /\ NameIdle
  /\ OrderIdle
  /\ CastIdle

\* handleJoin: playerName := sanitizePlayerName(joinMsg.N)
Name_Sanitize(name) ==
  /\ nm.pc = "idle"
  /\ nm' = [pc |-> "ret", in |-> name, out |-> sanitizePlayerName(name)]
  /\ UNCHANGED nameOthers

\* the next join message
Name_Next ==
  /\ nm.pc = "ret"
  /\ nm' = NoName
  /\ UNCHANGED nameOthers

NameNext ==
  \/ \E name \in RawNames : Name_Sanitize(name)
  \/ Name_Next

SpecName == NameInit /\ [][NameNext]_vars

\* ---------------------------------------- SpecRange: GetChunksInRange
\* One caller of GetChunksInRange on the server's manager.  rg is the call
\* under way: its arguments, the loop variable chunkID, the slice built so
\* far, and the cache as the call found it; the caller holds the returned
\* slice until it is done with it.
rangeOthers == <<genVars, regVars, hubVars, bcVars, harnessVars, plVars, raceVars, sessVars,
                 tickVars, regLockVars, nameVars, orderVars, castVars>>

\* an early return for reversed arguments only
EmptyRangeStrict(startX, endX) == startX > endX

\* if startX >= endX
EmptyRange(startX, endX) == startX >= endX

\* world coordinates the caller passes: the first unit and the inside of
\* each chunk
RangeXs == {t * ChunkSize + d : t \in ChunkIDs, d \in {0, 1000}}

RangeInit ==
  /\ PlIdle
  /\ SessIdle
  /\ TickIdle
  /\ GenIdle
  /\ \E masterSeed \in 0..MaxCMSeed :
       cmSeed = [m \in Managers |-> IF m = ServerCM THEN masterSeed ELSE 0]
  /\ CMIdle
  /\ RegIdle
  /\ HubIdle
  /\ BcIdle
  /\ RangeIdle
  /\ NameIdle
  /\ OrderIdle
  /\ CastIdle

\* GetChunksInRange(startX, endX) up to the loop: the early return, or
\* startChunkID, endChunkID and the empty slice
GetChunksInRange_Enter(startX, endX) ==
  /\ rg.pc = "idle"
  /\ rg' = IF EmptyRange(startX, endX)
           THEN [pc |-> "ret", startX |-> startX, endX |-> endX, chunkID |-> 0,
                 endChunkID |-> 0, chunks |-> <<>>, before |-> chunks[ServerCM]]
           ELSE [pc |-> "loop", startX |-> startX, endX |-> endX,
                 chunkID |-> ChunkIDOf(startX), endChunkID |-> ChunkIDOf(endX),
                 chunks |-> <<>>, before |-> chunks[ServerCM]]
  /\ UNCHANGED <<cmVars, rangeOthers>>

\* one iteration: chunk := cm.GetOrGenerateChunk(chunkID); append; chunkID++
GetChunksInRange_Loop ==
  LET chunkID == rg.chunkID
      generated == GenerateChunk(cmSeed[ServerCM], chunkID)
      fresh == [ID |-> generated.ID, Obstacles |-> generated.Obstacles,
                inst |-> cmGenCount[ServerCM][chunkID] + 1]
      chunk == IF chunkID \in DOMAIN chunks[ServerCM] THEN chunks[ServerCM][chunkID] ELSE fresh
  IN /\ rg.pc = "loop"
     /\ chunkID <= rg.endChunkID
     /\ IF chunkID \in DOMAIN chunks[ServerCM]
        THEN UNCHANGED <<chunks, cmGenCount>>
        ELSE /\ chunks' = [chunks EXCEPT ![ServerCM] =
                             [k \in DOMAIN chunks[ServerCM] \cup {chunkID} |->
                                IF k = chunkID THEN fresh ELSE chunks[ServerCM][k]]]
             /\ cmGenCount' = [cmGenCount EXCEPT ![ServerCM][chunkID] = @ + 1]
     /\ rg' = [rg EXCEPT !.chunks = Append(@, chunk), !.chunkID = @ + 1]
     /\ UNCHANGED <<cmSeed, cmMu, cmPC, cmArg, cmCalls, cmEvictCount, cmLog, rangeOthers>>

\* the loop is over: return chunks
GetChunksInRange_Return ==
  /\ rg.pc = "loop"
  /\ rg.chunkID > rg.endChunkID
  /\ rg' = [rg EXCEPT !.pc = "ret"]
  /\ UNCHANGED <<cmVars, rangeOthers>>

\* the caller is done with the returned slice
GetChunksInRange_Done ==
  /\ rg.pc = "ret"
  /\ rg' = NoRange
  /\ UNCHANGED <<cmVars, rangeOthers>>

RangeNext ==
  \/ \E startX \in RangeXs, endX \in RangeXs : GetChunksInRange_Enter(startX, endX)
  \/ GetChunksInRange_Loop
  \/ GetChunksInRange_Return
  \/ GetChunksInRange_Done

SpecRange == RangeInit /\ [][RangeNext]_vars

\* ------------------------------------------------ SpecHub: the client hub
\* The hub driven through its exported operations by one broadcasting
\* caller and by callers of AddClient/RemoveClient, over a registry that
\* holds alive and dead players.
hubOthers == <<genVars, cmVars, plVars, raceVars, sessVars, tickVars, regLockVars, rangeVars, nameVars, orderVars, castVars>>

HubInit ==
  /\ PlIdle
  /\ SessIdle
  /\ TickIdle
  /\ GenIdle
  /\ cmSeed = [m \in Managers |-> 0]
  /\ CMIdle
  /\ regWriter = NoCaller
  /\ regReaders = {}
  /\ rCall = [c \in RegCallers |-> NoCall]
  /\ players = PlayerIDs
  /\ playerObj = [id \in PlayerIDs |->
                    IF id = 1 THEN NewPlayer(id) ELSE Kill(NewPlayer(id))]
  /\ HubIdle
  /\ BcIdle
  /\ RangeIdle
  /\ NameIdle
  /\ OrderIdle
  /\ CastIdle

Hub_AddClient(id) ==
  /\ wPC[id] = "none"
  /\ AddClient(id)
  /\ UNCHANGED <<regVars, bcVars, harnessVars, hubOthers>>

Hub_RemoveClient(id) ==
  /\ RemoveClient(id)
  /\ UNCHANGED <<regVars, bcVars, harnessVars, hubOthers>>

Hub_BroadcastState ==
  /\ tkPC = "idle"
  /\ BroadcastState_Build("idle")
  /\ UNCHANGED hubChunksSent
  /\ UNCHANGED <<regVars, hubVars, hubOthers>>

Hub_BroadcastChunk(chunkID) ==
  /\ tkPC = "idle"
  /\ chunkID \notin hubChunksSent
  /\ hubChunksSent' = hubChunksSent \cup {chunkID}
  /\ BroadcastChunk_Build(chunkID, GenerateChunk(0, chunkID), "idle")
  /\ UNCHANGED <<regVars, hubVars, hubOthers>>

Hub_RLock == Broadcast_RLock /\ UNCHANGED <<regVars, harnessVars, hubOthers>>

Hub_Send(id) == Broadcast_Send(id) /\ UNCHANGED <<regVars, harnessVars, hubOthers>>

Hub_RUnlock == Broadcast_RUnlock /\ UNCHANGED <<regVars, harnessVars, hubOthers>>

Hub_WriterRecv(id) ==
  WriteLoop_Recv(id) /\ UNCHANGED <<regVars, bcVars, harnessVars, hubOthers>>

Hub_WriterWrite(id, ok) ==
  WriteLoop_Write(id, ok) /\ UNCHANGED <<regVars, bcVars, harnessVars, hubOthers>>

HubNext ==
  \/ \E id \in HubClients : Hub_AddClient(id)
  \/ \E id \in HubClients : Hub_RemoveClient(id)
  \/ Hub_BroadcastState
  \/ \E k \in HubChunkIDs : Hub_BroadcastChunk(k)
  \/ Hub_RLock
  \/ \E id \in HubClients : Hub_Send(id)
  \/ Hub_RUnlock
  \/ \E id \in HubClients : Hub_WriterRecv(id)
  \/ \E id \in HubClients, ok \in BOOLEAN : Hub_WriterWrite(id, ok)

SpecHub == HubInit /\ [][HubNext]_vars

\* ------------------------------------------------------------- SpecOrder
\* The hub under the ticker's successive BroadcastState calls, each
\* stamped with the time of its tick, with a client that registers,
\* unregisters and registers again, and whose write goroutine runs at any
\* pace.  wLog[id] is the sequence of the time stamps of the state messages
\* the write goroutine of the current connection of id has passed to
\* conn.WriteMessage.
orderOthers == <<genVars, cmVars, plVars, raceVars, sessVars, tickVars, regLockVars, rangeVars, nameVars, castVars>>

MaxOrderTicks == 12

OrderClients == {1}

\* the numbers of earlier connections after which a client registers
OrderEarlier == {0, 1}

\* one tick's broadcaster.BroadcastState(gameState), up to json.Marshal;
\* T is time.Now().UnixMilli(), counted in tick periods
Order_BroadcastState ==
  /\ tkPC = "idle"
  /\ now < MaxOrderTicks
  /\ now' = now + 1
  /\ bcMsg' = [E |-> "state", T |-> now', P |-> PlayerStates(GetAllPlayers)]
  /\ tkPC' = "bc_lock"
  /\ bcRet' = "idle"
  /\ UNCHANGED <<bcTodo, bcDropped>>
  /\ UNCHANGED <<regVars, hubVars, harnessVars, orderVars, orderOthers>>

Order_RLock == Broadcast_RLock /\ UNCHANGED <<regVars, harnessVars, orderVars, orderOthers>>

Order_Send(id) == Broadcast_Send(id) /\ UNCHANGED <<regVars, harnessVars, orderVars, orderOthers>>

Order_RUnlock == Broadcast_RUnlock /\ UNCHANGED <<regVars, harnessVars, orderVars, orderOthers>>

\* a new ClientConnection with a new channel and a new write goroutine
Order_AddClient(id) ==
  /\ wPC[id] \in {"none", "exited"}
  /\ id \notin clients
  /\ closeCount[id] \in OrderEarlier
  /\ AddClient(id)
  /\ wLog' = [wLog EXCEPT ![id] = <<>>]
  /\ UNCHANGED <<regVars, bcVars, harnessVars, orderOthers>>

Order_RemoveClient(id) ==
  /\ id \in clients
  /\ RemoveClient(id)
  /\ UNCHANGED <<regVars, bcVars, harnessVars, orderVars, orderOthers>>

Order_WriterRecv(id) ==
  WriteLoop_Recv(id) /\ UNCHANGED <<regVars, bcVars, harnessVars, orderVars, orderOthers>>

\* c.Conn.WriteMessage is called unless the connection was closed
Order_WriterWrite(id, ok) ==
  /\ WriteLoop_Write(id, ok)
  /\ wLog' = [wLog EXCEPT ![id] =
                IF ~conn[id].closed /\ wMsg[id].E = "state"
                THEN Append(@, wMsg[id].T) ELSE @]
  /\ UNCHANGED <<regVars, bcVars, harnessVars, orderOthers>>

OrderNext ==
  \/ Order_BroadcastState
  \/ Order_RLock
  \/ \E id \in OrderClients : Order_Send(id)
  \/ Order_RUnlock
  \/ \E id \in OrderClients : Order_AddClient(id)
  \/ \E id \in OrderClients : Order_RemoveClient(id)
  \/ \E id \in OrderClients : Order_WriterRecv(id)
  \/ \E id \in OrderClients, ok \in BOOLEAN : Order_WriterWrite(id, ok)

SpecOrder == HubInit /\ [][OrderNext]_vars

\* SpecHub with the scheduler's guarantee for the write goroutines: a
\* goroutine that can receive from its channel (a message, or the end of
\* the range on a closed and drained channel) does so, and a transport
\* write in progress returns or hits its write deadline.
LiveClients == {1}

HubWriterFair ==
  \A id \in LiveClients :
    /\ WF_vars(Hub_WriterRecv(id))
    /\ WF_vars(\E ok \in BOOLEAN : Hub_WriterWrite(id, ok))

HubLiveNext ==
  \/ \E id \in LiveClients : Hub_AddClient(id)
  \/ \E id \in LiveClients : Hub_RemoveClient(id)
  \/ Hub_BroadcastState
  \/ Hub_RLock
  \/ \E id \in LiveClients : Hub_Send(id)
  \/ Hub_RUnlock
  \/ \E id \in LiveClients : Hub_WriterRecv(id)
  \/ \E id \in LiveClients, ok \in BOOLEAN : Hub_WriterWrite(id, ok)

SpecHubLive == HubInit /\ [][HubLiveNext]_vars /\ HubWriterFair

\* ------------------------------------------------ SpecPlayer: one Player
\* One Player object driven through its methods and the ticker's loop
\* body, one call at a time.  plPrev is the object before the last call and
\* plOp the call.
plOthers == <<genVars, cmVars, regVars, hubVars, bcVars, harnessVars, raceVars, sessVars, tickVars, regLockVars, rangeVars, nameVars, orderVars, castVars>>

PlayerInit ==
  /\ \E id \in PlayerIDs : pl = NewPlayer(id) /\ plPrev = NewPlayer(id)
  /\ plOp = "new"
  /\ RaceIdle
  /\ SessIdle
  /\ TickIdle
  /\ GenIdle
  /\ cmSeed = [m \in Managers |-> 0]
  /\ CMIdle
  /\ RegIdle
  /\ HubIdle
  /\ BcIdle
  /\ RangeIdle
  /\ NameIdle
  /\ OrderIdle
  /\ CastIdle

Player_Jump ==
  /\ pl' = Jump(pl)
  /\ plPrev' = pl
  /\ plOp' = "Jump"
  /\ UNCHANGED plOthers

Player_Kill ==
  /\ pl' = Kill(pl)
  /\ plPrev' = pl
  /\ plOp' = "Kill"
  /\ UNCHANGED plOthers

Player_Tick ==
  /\ pl' = TickPlayer(pl)
  /\ plPrev' = pl
  /\ plOp' = "Tick"
  /\ UNCHANGED plOthers

PlayerNext ==
  \/ Player_Jump
  \/ Player_Kill
  \/ Player_Tick

SpecPlayer == PlayerInit /\ [][PlayerNext]_vars

\* ------------------------------------------- SpecFall: a player in the air
\* One live Player object put at rest in the air, at a height between the
\* top of the screen and the ground, and then driven by the ticker's
\* physics step and by jump requests.  The ticker runs for as long as the
\* server does: its step is taken again and again.
FallYs == {0, 100, 200, 300, 400}

FallInit ==
  /\ \E id \in PlayerIDs, y \in FallYs :
       /\ pl = [NewPlayer(id) EXCEPT !.Y = y, !.IsGrounded = FALSE]
       /\ plPrev = pl
  /\ plOp = "new"
  /\ RaceIdle
  /\ SessIdle
  /\ TickIdle
  /\ GenIdle
  /\ cmSeed = [m \in Managers |-> 0]
  /\ CMIdle
  /\ RegIdle
  /\ HubIdle
  /\ BcIdle
  /\ RangeIdle
  /\ NameIdle
  /\ OrderIdle
  /\ CastIdle

FallNext ==
  \/ Player_Jump
  \/ Player_Tick

SpecFall == FallInit /\ [][FallNext]_vars /\ WF_vars(Player_Tick)

\* ------------------------------------------- SpecReg: the registry's lock
\* GameState driven by concurrent callers, with g.mu spelled out: a call
\* takes the lock (writers exclusively, readers shared), does its work on
\* the map and returns, releasing the lock.  rCall[c] is the call caller c
\* is in: its operation and argument, the snapshot slice built so far
\* (acc), the contents the map had at the instants of the call (inst), the
\* map before and after the call's access, and the value returned (val),
\* which the caller holds until it is done with it.
regOthers == <<genVars, cmVars, playerObj, hubVars, bcVars, harnessVars, plVars, raceVars,
               sessVars, tickVars, rangeVars, nameVars, orderVars, castVars>>

\* a g.mu that excludes nobody
RegAlwaysFree == TRUE

\* g.mu.Lock() is granted with no writer and no reader inside
RegCanLock == regWriter = NoCaller /\ regReaders = {}

\* g.mu.RLock() is granted with no writer inside
RegCanRLock == regWriter = NoCaller

RegInit ==
  /\ RegIdle
  /\ PlIdle
  /\ SessIdle
  /\ TickIdle
  /\ GenIdle
  /\ cmSeed = [m \in Managers |-> 0]
  /\ CMIdle
  /\ HubIdle
  /\ BcIdle
  /\ RangeIdle
  /\ NameIdle
  /\ OrderIdle
  /\ CastIdle

\* the contents of the map at the instants of the calls under way
RegObserve(c, after) ==
  [k \in RegCallers |->
     IF k # c /\ rCall[k].pc \in {"locked", "rlocked"}
     THEN [rCall[k] EXCEPT !.inst = @ \cup {after}]
     ELSE rCall[k]]

\* AddPlayer / RemovePlayer: g.mu.Lock()
Reg_Lock(c, op, id) ==
  /\ rCall[c].pc = "idle"
  /\ RegCanLock
  /\ regWriter' = c
  /\ rCall' = [rCall EXCEPT ![c] =
                 [pc |-> "locked", op |-> op, arg |-> id, acc |-> {}, inst |-> {players},
                  before |-> players, after |-> players, val |-> NilPlayer]]
  /\ UNCHANGED <<players, regReaders, regOthers>>

\* AddPlayer: g.players[player.ID] = player; deferred Unlock
Reg_AddPlayer(c) ==
  /\ rCall[c].pc = "locked"
  /\ rCall[c].op = "AddPlayer"
  /\ players' = AddPlayer(rCall[c].arg)
  /\ rCall' = [RegObserve(c, players') EXCEPT ![c] =
                 [rCall[c] EXCEPT !.pc = "ret", !.before = players, !.after = players']]
  /\ regWriter' = NoCaller
  /\ UNCHANGED <<regReaders, regOthers>>

\* RemovePlayer: delete(g.players, playerID); deferred Unlock
Reg_RemovePlayer(c) ==
  /\ rCall[c].pc = "locked"
  /\ rCall[c].op = "RemovePlayer"
  /\ players' = RemovePlayer(rCall[c].arg)
  /\ rCall' = [RegObserve(c, players') EXCEPT ![c] =
                 [rCall[c] EXCEPT !.pc = "ret", !.before = players, !.after = players']]
  /\ regWriter' = NoCaller
  /\ UNCHANGED <<regReaders, regOthers>>

\* GetPlayer / GetAllPlayers / GetPlayerCount: g.mu.RLock()
Reg_RLock(c, op, id) ==
  /\ rCall[c].pc = "idle"
  /\ RegCanRLock
  /\ regReaders' = regReaders \cup {c}
  /\ rCall' = [rCall EXCEPT ![c] =
                 [pc |-> "rlocked", op |-> op, arg |-> id, acc |-> {}, inst |-> {players},
                  before |-> players, after |-> players, val |-> NilPlayer]]
  /\ UNCHANGED <<players, regWriter, regOthers>>

\* GetPlayer: return g.players[playerID]; deferred RUnlock
Reg_GetPlayer(c) ==
  /\ rCall[c].pc = "rlocked"
  /\ rCall[c].op = "GetPlayer"
  /\ rCall' = [rCall EXCEPT ![c] =
                 [@ EXCEPT !.pc = "ret", !.val = GetPlayer(rCall[c].arg),
                           !.before = players, !.after = players]]
  /\ regReaders' = regReaders \ {c}
  /\ UNCHANGED <<players, regWriter, regOthers>>

\* GetPlayerCount: return len(g.players); deferred RUnlock
Reg_GetPlayerCount(c) ==
  /\ rCall[c].pc = "rlocked"
  /\ rCall[c].op = "GetPlayerCount"
  /\ rCall' = [rCall EXCEPT ![c] =
                 [@ EXCEPT !.pc = "ret", !.val = GetPlayerCount,
                           !.before = players, !.after = players]]
  /\ regReaders' = regReaders \ {c}
  /\ UNCHANGED <<players, regWriter, regOthers>>

\* GetAllPlayers: one iteration of the range over g.players, appending
\* the player to the new slice
Reg_GetAllPlayers_Append(c, id) ==
  /\ rCall[c].pc = "rlocked"
  /\ rCall[c].op = "GetAllPlayers"
  /\ id \in players \ rCall[c].acc
  /\ rCall' = [rCall EXCEPT ![c].acc = @ \cup {id}]
  /\ UNCHANGED <<players, regWriter, regReaders, regOthers>>

\* GetAllPlayers: the range is over; return the slice; deferred RUnlock
Reg_GetAllPlayers_Return(c) ==
  /\ rCall[c].pc = "rlocked"
  /\ rCall[c].op = "GetAllPlayers"
  /\ players \ rCall[c].acc = {}
  /\ rCall' = [rCall EXCEPT ![c] =
                 [@ EXCEPT !.pc = "ret", !.val = rCall[c].acc,
                           !.before = players, !.after = players]]
  /\ regReaders' = regReaders \ {c}
  /\ UNCHANGED <<players, regWriter, regOthers>>

\* the caller is done with what the call returned
Reg_Done(c) ==
  /\ rCall[c].pc = "ret"
  /\ rCall' = [rCall EXCEPT ![c] = NoCall]
  /\ UNCHANGED <<players, regWriter, regReaders, regOthers>>

RegNext ==
  \/ \E c \in RegCallers, op \in {"AddPlayer", "RemovePlayer"}, id \in PlayerIDs :
        Reg_Lock(c, op, id)
  \/ \E c \in RegCallers : Reg_AddPlayer(c)
  \/ \E c \in RegCallers : Reg_RemovePlayer(c)
  \/ \E c \in RegCallers, id \in PlayerIDs : Reg_RLock(c, "GetPlayer", id)
  \/ \E c \in RegCallers, op \in {"GetAllPlayers", "GetPlayerCount"} : Reg_RLock(c, op, NoPlayer)
  \/ \E c \in RegCallers : Reg_GetPlayer(c)
  \/ \E c \in RegCallers : Reg_GetPlayerCount(c)
  \/ \E c \in RegCallers, id \in PlayerIDs : Reg_GetAllPlayers_Append(c, id)
  \/ \E c \in RegCallers : Reg_GetAllPlayers_Return(c)
  \/ \E c \in RegCallers : Reg_Done(c)

SpecReg == RegInit /\ [][RegNext]_vars

\* ------------------------------- SpecRace: Jump against updatePlayerPhysics
\* One alive Player object shared, as in the server, by the session
\* goroutine of its connection (the "jump" case calls player.Jump()) and by
\* the ticker goroutine (updatePlayerPhysics on every tick).  Neither takes
\* a lock on the object, so the calls interleave at the level of the loads
\* and stores of the fields: each action is one of them.  phV is the
\* ticker's register holding the velocity it computed.  jpObs follows the
\* last jump that passed its check: "returned" once Jump has returned,
\* "ticking" during the first physics update that starts after the return,
\* "ticked" when that update has returned, "over" afterwards.
raceOthers == <<genVars, cmVars, regVars, hubVars, bcVars, harnessVars, sessVars, tickVars, regLockVars, rangeVars, nameVars, orderVars, castVars>>

RaceInit ==
  /\ pl = NewPlayer(1)
  /\ plPrev = NewPlayer(1)
  /\ plOp = "new"
  /\ RaceIdle
  /\ SessIdle
  /\ TickIdle
  /\ GenIdle
  /\ cmSeed = [m \in Managers |-> 0]
  /\ CMIdle
  /\ RegIdle
  /\ HubIdle
  /\ BcIdle
  /\ RangeIdle
  /\ NameIdle
  /\ OrderIdle
  /\ CastIdle

\* Jump: if p.IsGrounded && p.IsAlive
Race_JumpCheck ==
  /\ jpPC = "idle"
  /\ jpPC' = IF pl.IsGrounded /\ pl.IsAlive THEN "set_velocity" ELSE "idle"
  /\ jpObs' = IF pl.IsGrounded /\ pl.IsAlive THEN "none" ELSE jpObs
  /\ UNCHANGED <<pl, plPrev, plOp, phPC, phV, raceOthers>>

\* Jump: p.VelocityY = -600.0
Race_JumpSetVelocity ==
  /\ jpPC = "set_velocity"
  /\ pl' = [pl EXCEPT !.VelocityY = JumpVelocity]
  /\ jpPC' = "set_grounded"
  /\ UNCHANGED <<plPrev, plOp, phPC, phV, jpObs, raceOthers>>

\* Jump: p.IsGrounded = false, and the return
Race_JumpSetGrounded ==
  /\ jpPC = "set_grounded"
  /\ pl' = [pl EXCEPT !.IsGrounded = FALSE]
  /\ jpPC' = "idle"
  /\ jpObs' = "returned"
  /\ UNCHANGED <<plPrev, plOp, phPC, phV, raceOthers>>

\* the ticker's loop body on an alive player; updatePlayerPhysics: load of
\* player.VelocityY and the addition of Gravity * DeltaTime
Race_PhysLoadVelocity ==
  /\ phPC = "idle"
  /\ pl.IsAlive
  /\ phV' = pl.VelocityY + Gravity \div TickRate
  /\ phPC' = "store_velocity"
  /\ jpObs' = CASE jpObs = "returned" -> "ticking"
                 [] jpObs = "ticked" -> "over"
                 [] OTHER -> jpObs
  /\ UNCHANGED <<pl, plPrev, plOp, jpPC, raceOthers>>

\* updatePlayerPhysics: store of player.VelocityY
Race_PhysStoreVelocity ==
  /\ phPC = "store_velocity"
  /\ pl' = [pl EXCEPT !.VelocityY = phV]
  /\ phPC' = "move"
  /\ UNCHANGED <<plPrev, plOp, phV, jpPC, jpObs, raceOthers>>

\* updatePlayerPhysics: player.Y += player.VelocityY * DeltaTime, with the
\* velocity taken from the register or loaded again
Race_PhysMove ==
  /\ phPC = "move"
  /\ \E v \in {phV, pl.VelocityY} : pl' = [pl EXCEPT !.Y = @ + v \div TickRate]
  /\ phPC' = "collide"
  /\ UNCHANGED <<plPrev, plOp, phV, jpPC, jpObs, raceOthers>>

\* updatePlayerPhysics: if player.Y >= GroundY { player.Y = GroundY ... }
\* else { player.IsGrounded = false }
Race_PhysCollide ==
  /\ phPC = "collide"
  /\ IF pl.Y >= GroundY
     THEN /\ pl' = [pl EXCEPT !.Y = GroundY]
          /\ phPC' = "stop"
          /\ UNCHANGED jpObs
     ELSE /\ pl' = [pl EXCEPT !.IsGrounded = FALSE]
          /\ phPC' = "idle"
          /\ jpObs' = IF jpObs = "ticking" THEN "ticked" ELSE jpObs
  /\ UNCHANGED <<plPrev, plOp, phV, jpPC, raceOthers>>

\* updatePlayerPhysics: player.VelocityY = 0.0
Race_PhysStop ==
  /\ phPC = "stop"
  /\ pl' = [pl EXCEPT !.VelocityY = 0]
  /\ phPC' = "ground"
  /\ UNCHANGED <<plPrev, plOp, phV, jpPC, jpObs, raceOthers>>

\* updatePlayerPhysics: player.IsGrounded = true, and the return
Race_PhysGround ==
  /\ phPC = "ground"
  /\ pl' = [pl EXCEPT !.IsGrounded = TRUE]
  /\ phPC' = "idle"
  /\ jpObs' = IF jpObs = "ticking" THEN "ticked" ELSE jpObs
  /\ UNCHANGED <<plPrev, plOp, phV, jpPC, raceOthers>>

RaceNext ==
  \/ Race_JumpCheck
  \/ Race_JumpSetVelocity
  \/ Race_JumpSetGrounded
  \/ Race_PhysLoadVelocity
  \/ Race_PhysStoreVelocity
  \/ Race_PhysMove
  \/ Race_PhysCollide
  \/ Race_PhysStop
  \/ Race_PhysGround

SpecRace == RaceInit /\ [][RaceNext]_vars

\* ------------------------------------------------------ Spec: the server
\* main(): one chunk manager with chunks 0..2 generated, an empty registry,
\* an empty hub, the ticker goroutine, and one HandleClient goroutine per
\* connection.  A Jump call and a physics update of one player are one
\* step each here; SpecRace interleaves their field accesses.
\* The ticker is the only caller of the chunk manager, so its
\* calls are taken in one step each.  The write goroutines AddClient starts
\* take no step here (a consumer that has stalled); SpecHub runs them.
mainOthers == <<genVars, plVars, raceVars, harnessVars, regLockVars, rangeVars, nameVars, orderVars, castVars>>

MainInit ==
  /\ GenIdle
  /\ PlIdle
  /\ cmSeed = [m \in Managers |-> 0]
  /\ chunks = [m \in Managers |->
                 IF m = ServerCM
                 THEN [k \in 0..(PreGeneratedChunks - 1) |->
                         [ID |-> GenerateChunk(cmSeed[m], k).ID,
                          Obstacles |-> GenerateChunk(cmSeed[m], k).Obstacles,
                          inst |-> 1]]
                 ELSE NewChunkManager(cmSeed[m]).chunks]
  /\ cmMu = [m \in Managers |-> NoCaller]
  /\ cmPC = [c \in Callers |-> "idle"]
  /\ cmArg = [c \in Callers |-> NoArg]
  /\ cmCalls = 0
  /\ cmGenCount = [m \in Managers |-> [k \in ChunkIDs |->
                     IF m = ServerCM /\ k < PreGeneratedChunks THEN 1 ELSE 0]]
  /\ cmEvictCount = [m \in Managers |-> [k \in ChunkIDs |-> 0]]
  /\ cmLog = {}
  /\ RegIdle
  /\ HubIdle
  /\ BcIdle
  /\ SessIdle
  /\ TickIdle
  /\ RangeIdle
  /\ NameIdle
  /\ OrderIdle
  /\ CastIdle

\* an identity computed from the number of registered players
getNextPlayerIDByCount == Cardinality(players) + 1

\* getNextPlayerID, under counterMutex: playerIDCounter++ and return it
getNextPlayerID == playerIDCounter + 1

\* a join that registers the connection with the hub before the welcome
\* is sent
Session_JoinAddFirst(s) ==
  /\ sPC[s] = "read"
  /\ playerIDCounter + 1 \in MainIDs
  /\ playerIDCounter' = getNextPlayerID
  /\ playerObj' = [playerObj EXCEPT ![playerIDCounter'] = NewPlayer(playerIDCounter')]
  /\ players' = AddPlayer(playerIDCounter')
  /\ sJoinID' = [sJoinID EXCEPT ![s] = playerIDCounter']
  /\ sJoined' = [sJoined EXCEPT ![s] = @ \cup {playerIDCounter'}]
  /\ sPC' = [sPC EXCEPT ![s] = "welcome"]
  /\ AddClient(playerIDCounter')
  /\ UNCHANGED <<sPlayerID, sSeed, cmVars, bcVars, tickVars, mainOthers>>

\* "join": handleJoin up to gameState.AddPlayer (getNextPlayerID, NewPlayer,
\* AddPlayer).  sJoined[s] records the identities the joins of session s
\* were given.
Session_Join(s) ==
  /\ sPC[s] = "read"
  /\ playerIDCounter + 1 \in MainIDs
  /\ playerIDCounter' = getNextPlayerID
  /\ playerObj' = [playerObj EXCEPT ![playerIDCounter'] = NewPlayer(playerIDCounter')]
  /\ players' = AddPlayer(playerIDCounter')
  /\ sJoinID' = [sJoinID EXCEPT ![s] = playerIDCounter']
  /\ sJoined' = [sJoined EXCEPT ![s] = @ \cup {playerIDCounter'}]
  /\ sPC' = [sPC EXCEPT ![s] = "welcome"]
  /\ UNCHANGED <<sPlayerID, sSeed, cmVars, hubVars, bcVars, tickVars, mainOthers>>

\* handleJoin's sendMessage(welcome) and its return into HandleClient:
\* playerID is the new identity, or 0 with an error that ends the session
\* (sJoinID[s] then stays as the record of the join whose welcome failed).
\* sSeed[s] is the seed of the last welcome the client of session s got.
Session_Welcome(s, ok) ==
  /\ sPC[s] = "welcome"
  /\ sPlayerID' = [sPlayerID EXCEPT ![s] = IF ok THEN sJoinID[s] ELSE NoPlayer]
  /\ sJoinID' = [sJoinID EXCEPT ![s] = IF ok THEN NoPlayer ELSE @]
  /\ sPC' = [sPC EXCEPT ![s] = IF ok THEN "add_client" ELSE "defer"]
  /\ sSeed' = [sSeed EXCEPT ![s] = IF ok THEN WelcomeSeed(sJoinID[s]) ELSE @]
  /\ UNCHANGED <<playerIDCounter, sJoined, cmVars, regVars, hubVars, bcVars, tickVars, mainOthers>>

\* "join" whose data does not parse as a JoinMessage: handleJoin returns
\* 0 and an error before it creates a player, and the session ends
Session_JoinInvalid(s) ==
  /\ sPC[s] = "read"
  /\ sPlayerID' = [sPlayerID EXCEPT ![s] = NoPlayer]
  /\ sPC' = [sPC EXCEPT ![s] = "defer"]
  /\ UNCHANGED <<playerIDCounter, sJoinID, sJoined, sSeed>>
  /\ UNCHANGED <<cmVars, regVars, hubVars, bcVars, tickVars, mainOthers>>

\* clientHub.AddClient(playerID, conn)
Session_AddClient(s) ==
  /\ sPC[s] = "add_client"
  /\ AddClient(sPlayerID[s])
  /\ sPC' = [sPC EXCEPT ![s] = "read"]
  /\ UNCHANGED <<playerIDCounter, sPlayerID, sJoinID, sJoined, sSeed>>
  /\ UNCHANGED <<cmVars, regVars, bcVars, tickVars, mainOthers>>

\* a "jump" that is applied to some registered player, whichever session
\* it came in on
Session_JumpAny(s) ==
  /\ sPC[s] = "read"
  /\ \E id \in players : playerObj' = [playerObj EXCEPT ![id] = Jump(@)]
  /\ UNCHANGED <<players, sessVars, cmVars, hubVars, bcVars, tickVars, mainOthers>>

\* "jump": if playerID != 0, GetPlayer(playerID) and, if that is not nil,
\* player.Jump(); a jump on a session with playerID 0, or whose player is
\* no longer registered, is read and dropped
Session_Jump(s) ==
  /\ sPC[s] = "read"
  /\ IF sPlayerID[s] # NoPlayer /\ GetPlayer(sPlayerID[s]) # NilPlayer
     THEN playerObj' = [playerObj EXCEPT ![sPlayerID[s]] = Jump(@)]
     ELSE UNCHANGED playerObj
  /\ UNCHANGED <<players, sessVars, cmVars, hubVars, bcVars, tickVars, mainOthers>>

\* conn.ReadMessage fails: break out of the loop into the deferred cleanup
Session_ReadError(s) ==
  /\ sPC[s] = "read"
  /\ sPC' = [sPC EXCEPT ![s] = "defer"]
  /\ UNCHANGED <<playerIDCounter, sPlayerID, sJoinID, sJoined, sSeed>>
  /\ UNCHANGED <<cmVars, regVars, hubVars, bcVars, tickVars, mainOthers>>

\* the deferred function: nothing to remove when playerID is 0, else
\* gameState.RemovePlayer(playerID) first
Session_RemovePlayer(s) ==
  /\ sPC[s] = "defer"
  /\ IF sPlayerID[s] # NoPlayer
     THEN /\ players' = RemovePlayer(sPlayerID[s])
          /\ sPC' = [sPC EXCEPT ![s] = "defer_hub"]
     ELSE /\ sPC' = [sPC EXCEPT ![s] = "done"]
          /\ UNCHANGED players
  /\ UNCHANGED <<playerObj, playerIDCounter, sPlayerID, sJoinID, sJoined, sSeed>>
  /\ UNCHANGED <<cmVars, hubVars, bcVars, tickVars, mainOthers>>

\* the deferred function: clientHub.RemoveClient(playerID), conn.Close()
Session_RemoveClient(s) ==
  /\ sPC[s] = "defer_hub"
  /\ RemoveClient(sPlayerID[s])
  /\ sPC' = [sPC EXCEPT ![s] = "done"]
  /\ UNCHANGED <<playerIDCounter, sPlayerID, sJoinID, sJoined, sSeed>>
  /\ UNCHANGED <<cmVars, regVars, bcVars, tickVars, mainOthers>>

\* a tick arrives: tickCount++, players := gameState.GetAllPlayers()
Tick_Start ==
  /\ tkPC = "idle"
  /\ tickCount < MaxTicks
  /\ tickCount' = tickCount + 1
  /\ tkSnap' = GetAllPlayers
  /\ tkTodo' = GetAllPlayers
  /\ tkPC' = "physics"
  /\ UNCHANGED <<lastBroadcastedChunk, tkStateCalls, tkChunkLog, bcMsg, bcTodo, bcDropped, bcRet, now>>
  /\ UNCHANGED <<cmVars, regVars, hubVars, sessVars, mainOthers>>

\* one iteration of the physics loop
Tick_Physics(id) ==
  /\ tkPC = "physics"
  /\ id \in tkTodo
  /\ tkTodo' = tkTodo \ {id}
  /\ playerObj' = [playerObj EXCEPT ![id] = TickPlayer(@)]
  /\ UNCHANGED <<players, tickCount, tkSnap, lastBroadcastedChunk, tkStateCalls, tkChunkLog, bcVars>>
  /\ UNCHANGED <<cmVars, hubVars, sessVars, mainOthers>>

\* the positions the physics loop tracked: players[0].X widened by the X
\* of the alive players of the snapshot (nothing moves a player
\* horizontally, so every X is SpawnX)
MaxPlayerX ==
  IF tkSnap = {} THEN 0
  ELSE CHOOSE x \in {playerObj[i].X : i \in tkSnap} :
         \A i \in tkSnap : playerObj[i].X <= x

MinPlayerX ==
  IF tkSnap = {} THEN 0
  ELSE CHOOSE x \in {playerObj[i].X : i \in tkSnap} :
         \A i \in tkSnap : playerObj[i].X >= x

\* the cache after GenerateAheadForPlayer(playerX, chunksAhead)
GenerateAheadForPlayer(m, playerX, chunksAhead) ==
  LET ahead == ChunkIDOf(playerX)..(ChunkIDOf(playerX) + chunksAhead)
  IN [k \in DOMAIN chunks[m] \cup ahead |->
        IF k \in DOMAIN chunks[m]
        THEN chunks[m][k]
        ELSE [ID |-> GenerateChunk(cmSeed[m], k).ID,
              Obstacles |-> GenerateChunk(cmSeed[m], k).Obstacles,
              inst |-> IF k \in ChunkIDs THEN cmGenCount[m][k] + 1 ELSE 1]]

\* the chunk the lead player is in
LeadingChunkID(maxPlayerX) == ChunkIDOf(maxPlayerX)

\* leadingChunkID := int(maxPlayerX / 5000.0); nextChunkID := leadingChunkID + 1
NextChunkID(maxPlayerX) == ChunkIDOf(maxPlayerX) + 1

\* a test that broadcasts whatever differs from the last broadcast index
DiffersFromLast(nextChunkID, last) == nextChunkID # last

\* if nextChunkID > lastBroadcastedChunk
NotYetBroadcast(nextChunkID, last) == nextChunkID > last

\* chunk management of a tick with players: generate ahead, broadcast the
\* next chunk if it was not broadcast yet.  tkChunkLog records, for every
\* BroadcastChunk call of the ticker, the tick that made it and the index.
Tick_Chunks ==
  LET ahead == GenerateAheadForPlayer(ServerCM, MaxPlayerX, 2)
      nextChunkID == NextChunkID(MaxPlayerX)
  IN /\ tkPC = "physics"
     /\ tkTodo = {}
     /\ IF tkSnap = {}
        THEN /\ tkPC' = "tick_state"
             /\ UNCHANGED <<chunks, cmGenCount, lastBroadcastedChunk, tkChunkLog>>
             /\ UNCHANGED <<bcMsg, bcTodo, bcDropped, bcRet, now>>
        ELSE /\ chunks' = [chunks EXCEPT ![ServerCM] = ahead]
             /\ cmGenCount' = [cmGenCount EXCEPT ![ServerCM] =
                                 [k \in ChunkIDs |->
                                    IF k \in DOMAIN ahead \ DOMAIN chunks[ServerCM]
                                    THEN @[k] + 1 ELSE @[k]]]
             /\ IF NotYetBroadcast(nextChunkID, lastBroadcastedChunk)
                THEN /\ BroadcastChunk_Build(nextChunkID, ahead[nextChunkID], "tick_state")
                     /\ lastBroadcastedChunk' = nextChunkID
                     /\ tkChunkLog' = Append(tkChunkLog, [tick |-> tickCount, id |-> nextChunkID])
                ELSE /\ tkPC' = "tick_state"
                     /\ UNCHANGED <<lastBroadcastedChunk, tkChunkLog>>
                     /\ UNCHANGED <<bcMsg, bcTodo, bcDropped, bcRet, now>>
     /\ UNCHANGED <<tickCount, tkSnap, tkTodo, tkStateCalls>>
     /\ UNCHANGED <<cmSeed, cmMu, cmPC, cmArg, cmCalls, cmEvictCount, cmLog>>
     /\ UNCHANGED <<regVars, hubVars, sessVars, mainOthers>>

\* a tick that broadcasts the state only when its snapshot holds players
Tick_BroadcastStateIfPlayers ==
  /\ tkPC = "tick_state"
  /\ IF tkSnap # {}
     THEN /\ BroadcastState_Build("idle")
          /\ tkStateCalls' = tkStateCalls + 1
     ELSE /\ tkPC' = "idle"
          /\ UNCHANGED <<tkStateCalls, bcMsg, bcTodo, bcDropped, bcRet, now>>
  /\ tkSnap' = {}
  /\ UNCHANGED <<tickCount, tkTodo, lastBroadcastedChunk, tkChunkLog>>
  /\ UNCHANGED <<cmVars, regVars, hubVars, sessVars, mainOthers>>

\* the cleanup due every 80 ticks, then broadcaster.BroadcastState(gameState)
\* up to json.Marshal.  The message is built from the registry snapshot and
\* from fields (ID, X, Y, IsAlive) that no session writes.  tkStateCalls
\* counts the ticker's BroadcastState calls.
Tick_BroadcastState ==
  /\ tkPC = "tick_state"
  /\ IF tkSnap # {} /\ tickCount % 80 = 0
     THEN /\ chunks' = [chunks EXCEPT ![ServerCM] = CleanupBehind(@, MinPlayerX, 1)]
          /\ cmEvictCount' = [cmEvictCount EXCEPT ![ServerCM] =
                [k \in ChunkIDs |->
                   IF k \in DOMAIN chunks[ServerCM]
                             \ DOMAIN CleanupBehind(chunks[ServerCM], MinPlayerX, 1)
                   THEN @[k] + 1 ELSE @[k]]]
     ELSE UNCHANGED <<chunks, cmEvictCount>>
  /\ BroadcastState_Build("idle")
  /\ tkStateCalls' = tkStateCalls + 1
  /\ tkSnap' = {}
  /\ UNCHANGED <<tickCount, tkTodo, lastBroadcastedChunk, tkChunkLog>>
  /\ UNCHANGED <<cmSeed, cmMu, cmPC, cmArg, cmCalls, cmGenCount, cmLog>>
  /\ UNCHANGED <<regVars, hubVars, sessVars, mainOthers>>

\* Player.Kill, the effect of a collision; a step of the game loop
\* between two ticks
Game_Kill(id) ==
  /\ tkPC = "idle"
  /\ id \in players
  /\ playerObj[id].IsAlive
  /\ playerObj' = [playerObj EXCEPT ![id] = Kill(@)]
  /\ UNCHANGED <<players, cmVars, hubVars, bcVars, sessVars, tickVars, mainOthers>>

Next ==
  \/ \E s \in Sessions : Session_Join(s)
  \/ \E s \in Sessions, ok \in BOOLEAN : Session_Welcome(s, ok)
  \/ \E s \in Sessions : Session_JoinInvalid(s)
  \/ \E s \in Sessions : Session_AddClient(s)
  \/ \E s \in Sessions : Session_Jump(s)
  \/ \E s \in Sessions : Session_ReadError(s)
  \/ \E s \in Sessions : Session_RemovePlayer(s)
  \/ \E s \in Sessions : Session_RemoveClient(s)
  \/ Tick_Start
  \/ \E id \in PlayerIDs : Tick_Physics(id)
  \/ Tick_Chunks
  \/ Tick_BroadcastState
  \/ \E id \in PlayerIDs : Game_Kill(id)
  \/ Hub_RLock
  \/ \E id \in PlayerIDs : Hub_Send(id)
  \/ Hub_RUnlock

Spec == MainInit /\ [][Next]_vars

\* ------------------------------------------------------------ SpecTicker
\* The ticker alone over several ticks, with players already registered
\* and no client connected.  X is an exported field that nothing in the
\* server changes; here it is written between two ticks, as a test does,
\* so that the lead player moves forward and falls back.

MaxTickerTicks == 3

TickerIDs == {1, 2}

TickerXs == {SpawnX, ChunkSize + SpawnX, 2 * ChunkSize + SpawnX}

TickerInit ==
  /\ GenIdle
  /\ PlIdle
  /\ cmSeed = [m \in Managers |-> 0]
  /\ chunks = [m \in Managers |->
                 IF m = ServerCM
                 THEN [k \in 0..(PreGeneratedChunks - 1) |->
                         [ID |-> GenerateChunk(cmSeed[m], k).ID,
                          Obstacles |-> GenerateChunk(cmSeed[m], k).Obstacles,
                          inst |-> 1]]
                 ELSE NewChunkManager(cmSeed[m]).chunks]
  /\ cmMu = [m \in Managers |-> NoCaller]
  /\ cmPC = [c \in Callers |-> "idle"]
  /\ cmArg = [c \in Callers |-> NoArg]
  /\ cmCalls = 0
  /\ cmGenCount = [m \in Managers |-> [k \in ChunkIDs |->
                     IF m = ServerCM /\ k < PreGeneratedChunks THEN 1 ELSE 0]]
  /\ cmEvictCount = [m \in Managers |-> [k \in ChunkIDs |-> 0]]
  /\ cmLog = {}
  /\ regWriter = NoCaller
  /\ regReaders = {}
  /\ rCall = [c \in RegCallers |-> NoCall]
  /\ players = TickerIDs
  /\ playerObj = [id \in PlayerIDs |-> NewPlayer(id)]
  /\ HubIdle
  /\ BcIdle
  /\ SessIdle
  /\ TickIdle
  /\ RangeIdle
  /\ NameIdle
  /\ OrderIdle
  /\ CastIdle

\* a tick arrives: tickCount++, players := gameState.GetAllPlayers()
Ticker_Start ==
  /\ tkPC = "idle"
  /\ tickCount < MaxTickerTicks
  /\ tickCount' = tickCount + 1
  /\ tkSnap' = GetAllPlayers
  /\ tkTodo' = GetAllPlayers
  /\ tkPC' = "physics"
  /\ UNCHANGED <<lastBroadcastedChunk, tkStateCalls, tkChunkLog, bcMsg, bcTodo, bcDropped, bcRet, now>>
  /\ UNCHANGED <<cmVars, regVars, hubVars, sessVars, mainOthers>>

\* player.X = x, between two ticks
Ticker_SetX(id, x) ==
  /\ tkPC = "idle"
  /\ id \in players
  /\ playerObj[id].X # x
  /\ playerObj' = [playerObj EXCEPT ![id].X = x]
  /\ UNCHANGED <<players, cmVars, hubVars, bcVars, sessVars, tickVars, mainOthers>>

TickerNext ==
  \/ Ticker_Start
  \/ \E id \in TickerIDs : Tick_Physics(id)
  \/ Tick_Chunks
  \/ Tick_BroadcastState
  \/ \E id \in TickerIDs, x \in TickerXs : Ticker_SetX(id, x)
  \/ Hub_RLock
  \/ Hub_RUnlock

SpecTicker == TickerInit /\ [][TickerNext]_vars

\* ------------------------------------------------------------- SpecFault
\* The ticker of SpecTicker when updatePlayerPhysics panics for a player.
\* The ticker's goroutine (ticker.go:95-173) has no deferred recover, and
\* neither has the loop body: a panic unwinds the goroutine and the Go
\* runtime ends the process.  tkPC = "crashed" is that end; no step of the
\* program follows it.

\* updatePlayerPhysics(player) panics for an alive player of the snapshot
Tick_PhysicsPanic(id) ==
  /\ tkPC = "physics"
  /\ id \in tkTodo
  /\ playerObj[id].IsAlive
  /\ tkPC' = "crashed"
  /\ UNCHANGED <<bcMsg, bcTodo, bcDropped, bcRet, now, harnessVars>>
  /\ UNCHANGED <<cmVars, regVars, hubVars, sessVars, tickVars>>
  /\ UNCHANGED <<genVars, plVars, raceVars, regLockVars, rangeVars, nameVars, orderVars, castVars>>

\* the steps of a tick once it has started
FaultTickerSteps ==
  \/ \E id \in TickerIDs : Tick_Physics(id)
  \/ Tick_Chunks
  \/ Tick_BroadcastState
  \/ Hub_RLock
  \/ Hub_RUnlock

FaultNext ==
  \/ Ticker_Start
  \/ \E id \in TickerIDs : Tick_Physics(id)
  \/ \E id \in TickerIDs : Tick_PhysicsPanic(id)
  \/ Tick_Chunks
  \/ Tick_BroadcastState
  \/ \E id \in TickerIDs, x \in TickerXs : Ticker_SetX(id, x)
  \/ Hub_RLock
  \/ Hub_RUnlock

\* the ticker's goroutine keeps being scheduled
SpecFault == TickerInit /\ [][FaultNext]_vars /\ WF_vars(FaultTickerSteps)

\* -------------------------------------------------------------- SpecDrop
\* One player put in the air at rest and left to the ticker alone, tick
\* after tick; tickCount is the ticker's count of ticks.  Here plPrev stays
\* the object the run started from.
MaxDropTicks == 20

Drop_Tick ==
  /\ tickCount < MaxDropTicks
  /\ tickCount' = tickCount + 1
  /\ pl' = TickPlayer(pl)
  /\ plOp' = "Tick"
  /\ UNCHANGED <<plPrev, tkSnap, tkTodo, lastBroadcastedChunk, tkStateCalls, tkChunkLog>>
  /\ UNCHANGED <<genVars, cmVars, regVars, hubVars, bcVars, harnessVars, raceVars, sessVars,
                 regLockVars, rangeVars, nameVars, orderVars, castVars>>

DropNext == Drop_Tick

SpecDrop == FallInit /\ [][DropNext]_vars

\* -------------------------------------------------------------- SpecJoin
\* One connection handled by HandleClient (it may join twice), the ticker
\* and the hub, with the write goroutines of the connections taking their
\* steps.  wLog[id] records the state messages the write goroutine of id
\* has passed to conn.WriteMessage.
JoinSessions == {1, 2}

JoinNext ==
  \/ \E s \in JoinSessions : Session_Join(s)
  \/ \E s \in JoinSessions, ok \in BOOLEAN : Session_Welcome(s, ok)
  \/ \E s \in JoinSessions : Session_AddClient(s)
  \/ \E s \in JoinSessions : Session_ReadError(s)
  \/ \E s \in JoinSessions : Session_RemovePlayer(s)
  \/ \E s \in JoinSessions : Session_RemoveClient(s)
  \/ Tick_Start
  \/ \E id \in PlayerIDs : Tick_Physics(id)
  \/ Tick_Chunks
  \/ Tick_BroadcastState
  \/ Hub_RLock
  \/ \E id \in PlayerIDs : Hub_Send(id)
  \/ Hub_RUnlock
  \/ \E id \in MainIDs : Order_WriterRecv(id)
  \/ \E id \in MainIDs, ok \in BOOLEAN : Order_WriterWrite(id, ok)

SpecJoin == MainInit /\ [][JoinNext]_vars

\* -------------------------------------------------------------- SpecCast
\* The ticker of SpecTicker with connections that register with the hub at
\* any time and whose write goroutines take no step, so that a
\* connection's channel holds everything that was sent to it.
\* regAfter[id] is the highest chunk index whose BroadcastChunk call had
\* taken its snapshot of the hub's clients (h.mu.RLock and the range) when
\* id registered, or -1.
castOthers == <<genVars, cmVars, plVars, raceVars, sessVars, tickVars, regLockVars, rangeVars, nameVars, orderVars>>

\* the index of the last BroadcastChunk call that has reached its range
\* over h.clients
LastChunkCast ==
  IF tkPC = "bc_lock" /\ bcMsg.E = "chunk"
  THEN IF Len(tkChunkLog) > 1 THEN tkChunkLog[Len(tkChunkLog) - 1].id ELSE -1
  ELSE lastBroadcastedChunk

CastClients == {1}

Cast_AddClient(id) ==
  /\ wPC[id] = "none"
  /\ AddClient(id)
  /\ regAfter' = [regAfter EXCEPT ![id] = LastChunkCast]
  /\ UNCHANGED <<regVars, bcVars, harnessVars, castOthers>>

CastNext ==
  \/ Ticker_Start
  \/ \E id \in TickerIDs : Tick_Physics(id)
  \/ Tick_Chunks
  \/ Tick_BroadcastState
  \/ \E id \in TickerIDs, x \in TickerXs : Ticker_SetX(id, x)
  \/ \E id \in CastClients : Cast_AddClient(id)
  \/ Hub_RLock
  \/ \E id \in CastClients : Hub_Send(id)
  \/ Hub_RUnlock

SpecCast == TickerInit /\ [][CastNext]_vars

\* =================================================================== claims

C4_SingleInstance ==
  /\ \A a, b \in cmLog :
       (a.m = b.m /\ a.id = b.id /\ a.e0 = a.e1 /\ b.e0 = b.e1 /\ a.e0 = b.e0)
         => a.chunk.inst = b.chunk.inst
  /\ \A m \in Managers, k \in ChunkIDs :
       /\ cmGenCount[m][k] <= cmEvictCount[m][k] + 1
       /\ (\E a \in cmLog : a.m = m /\ a.id = k) => cmGenCount[m][k] >= 1

\* a caller that missed on the read-locked lookup holds the write lock
\* while another caller has cached the chunk in between
C4_Witness ==
  \E c \in Callers :
    /\ cmPC[c] = "get_locked"
    /\ cmArg[c].id \in DOMAIN chunks[cmArg[c].m]
    /\ cmEvictCount[cmArg[c].m][cmArg[c].id] = 0

\* C2: a broadcast never waits on a consumer: whatever the queues hold, the
\* step of the call that is due (RLock, the send to any remaining
\* connection, RUnlock) can be taken; a send appends the message to a queue
\* holding fewer than SendChanCap messages and leaves a full queue as it
\* is, changing no other connection's queue; no queue ever holds more than
\* SendChanCap messages.
C2_SendStep ==
  \A id \in PlayerIDs :
    (tkPC = "bc_send" /\ id \in bcTodo /\ bcTodo' = bcTodo \ {id})
      => /\ conn'[id].SendChan =
              IF Len(conn[id].SendChan) < SendChanCap
              THEN Append(conn[id].SendChan, bcMsg)
              ELSE conn[id].SendChan
         /\ (id \in bcDropped') = (Len(conn[id].SendChan) >= SendChanCap)
         /\ \A other \in PlayerIDs \ {id} : conn'[other] = conn[other]

C2_NeverBlocks ==
  /\ tkPC = "bc_lock" => ENABLED Hub_RLock
  /\ tkPC = "bc_send" => \A id \in bcTodo : ENABLED Hub_Send(id)
  /\ (tkPC = "bc_send" /\ bcTodo = {}) => ENABLED Hub_RUnlock
  /\ \A id \in PlayerIDs : Len(conn[id].SendChan) <= SendChanCap

C2_NonBlockingBroadcast == [][C2_SendStep]_vars /\ []C2_NeverBlocks

\* one broadcast has dropped its message for a connection with a full
\* queue and enqueued it to another connection
C2_Witness ==
  /\ tkPC = "bc_send"
  /\ \E a \in bcDropped, b \in clients \ (bcTodo \cup bcDropped) :
       /\ Len(conn[a].SendChan) = SendChanCap
       /\ conn[b].SendChan # <<>>
       /\ conn[b].SendChan[Len(conn[b].SendChan)] = bcMsg

\* C9: a connection's send channel is closed exactly once, by the
\* RemoveClient that takes it out of the hub (further RemoveClient calls for
\* the identity change nothing), every connection still in the hub is open,
\* and no broadcast sends on a closed channel, whatever the interleaving of
\* RemoveClient with the steps of a broadcast.
C9_CloseOnce ==
  /\ ~hubPanic
  /\ \A id \in PlayerIDs :
       /\ closeCount[id] <= 1
       /\ conn[id].closed = (closeCount[id] = 1)
       /\ id \in clients => ~conn[id].closed
       /\ (wPC[id] # "none" /\ id \notin clients) => closeCount[id] = 1
  /\ tkPC = "bc_send" => \A id \in bcTodo : ~conn[id].closed

\* a connection was removed and closed while a broadcast is sending to
\* the remaining connections
C9_Witness ==
  /\ tkPC = "bc_send"
  /\ bcTodo # {}
  /\ \E id \in PlayerIDs : closeCount[id] = 1 /\ id \notin clients

\* C3: Player.Jump sets VelocityY to -600 and IsGrounded to false when the
\* player was alive and grounded before the call, touching no other field,
\* and leaves every field as it was when the player was airborne or dead.
C3_JumpGuard ==
  plOp = "Jump" =>
    IF plPrev.IsAlive /\ plPrev.IsGrounded
    THEN pl = [plPrev EXCEPT !.VelocityY = -600, !.IsGrounded = FALSE]
    ELSE pl = plPrev

\* a grounded, alive player that had a velocity other than -600 has jumped
C3_Witness ==
  /\ plOp = "Jump"
  /\ plPrev.IsAlive /\ plPrev.IsGrounded /\ plPrev.VelocityY = 0
  /\ pl.VelocityY = -600 /\ ~pl.IsGrounded

\* C8: the state message BroadcastState builds lists exactly the players
\* that are in the registry and alive when it is built, each with its ID, X
\* and Y; a dead player is not listed.
C8_BuildStep ==
  (tkPC = "tick_state" /\ tkPC' = "bc_lock")
    => /\ bcMsg'.E = "state"
       /\ bcMsg'.P = {[I |-> id, X |-> playerObj[id].X, Y |-> playerObj[id].Y] :
                        id \in {i \in players : playerObj[i].IsAlive}}
       /\ \A e \in bcMsg'.P : e.I \in players /\ playerObj[e.I].IsAlive

C8_AliveOnly == [][C8_BuildStep]_vars

\* a state message was built from a registry holding an alive and a dead
\* player
C8_Witness ==
  /\ tkPC = "bc_lock"
  /\ bcMsg.E = "state"
  /\ \E a, d \in players :
       /\ playerObj[a].IsAlive /\ ~playerObj[d].IsAlive
       /\ bcMsg.P = {[I |-> a, X |-> playerObj[a].X, Y |-> playerObj[a].Y]}

\* C10: the cleanup of a joined session removes its player from the
\* registry before it removes and closes its connection in the hub: while
\* the hub step is pending the player is already gone, and a send channel
\* is never closed while its player is still registered.  Once the
\* session has ended, neither the registry nor the hub holds the identity,
\* its send channel is closed, they stay that way, and no state message
\* built from then on lists the player.
C10_CleanedUp ==
  \A s \in Sessions :
    /\ sPC[s] = "defer_hub" => sPlayerID[s] \notin players
    /\ (sPC[s] = "done" /\ sPlayerID[s] # NoPlayer)
         => /\ sPlayerID[s] \notin players
            /\ sPlayerID[s] \notin clients
            /\ conn[sPlayerID[s]].closed
            /\ closeCount[sPlayerID[s]] = 1

C10_Order == \A id \in PlayerIDs : closeCount[id] >= 1 => id \notin players

C10_LaterMessages ==
  \A s \in Sessions :
    (sPC[s] = "done" /\ sPlayerID[s] # NoPlayer)
      => /\ sPC'[s] = "done" /\ sPlayerID'[s] = sPlayerID[s]
         /\ (tkPC = "tick_state" /\ tkPC' = "bc_lock")
              => \A e \in bcMsg'.P : e.I # sPlayerID[s]

C10_DisconnectCleanup ==
  [](C10_CleanedUp /\ C10_Order) /\ [][C10_LaterMessages]_vars

\* a session that had joined and was served by a broadcast has ended, and
\* a state message built without its (alive) player is going out to the
\* other connection
C10_Witness ==
  \E s \in Sessions :
    /\ sPC[s] = "done"
    /\ sPlayerID[s] # NoPlayer
    /\ playerObj[sPlayerID[s]].IsAlive
    /\ conn[sPlayerID[s]].SendChan # <<>>
    /\ tkPC = "bc_send"
    /\ bcMsg.E = "state"
    /\ bcMsg.P # {}
    /\ \A e \in bcMsg.P : e.I # sPlayerID[s]
    /\ bcTodo # {}

\* C11 (as claimed): a session that has ended after the welcome write of
\* its join failed has left the player that join added out of the registry.
C11_WelcomeFailureCleanup ==
  \A s \in Sessions :
    (sPC[s] = "done" /\ sJoinID[s] # NoPlayer) => sJoinID[s] \notin players

\* C12 (as claimed): a session never has more than one of its identities in
\* the registry or in the hub, and a session that has ended after a
\* disconnect has none of its identities left in either.
C12_SingleJoin ==
  \A s \in Sessions :
    /\ Cardinality(sJoined[s] \cap players) <= 1
    /\ Cardinality(sJoined[s] \cap clients) <= 1
    /\ (sPC[s] = "done" /\ sPlayerID[s] # NoPlayer)
         => sJoined[s] \cap (players \cup clients) = {}

C14_GroundedAtRest ==
  (phPC = "idle" /\ jpPC = "idle") => (pl.IsGrounded => pl.VelocityY = 0)

\* C15: no step of a tick (and no other step) changes Y, VelocityY or
\* IsGrounded of a player whose IsAlive is false; the physics loop passes
\* over it.
C15_DeadStep ==
  \A id \in PlayerIDs :
    ~playerObj[id].IsAlive
      => /\ playerObj'[id].Y = playerObj[id].Y
         /\ playerObj'[id].VelocityY = playerObj[id].VelocityY
         /\ playerObj'[id].IsGrounded = playerObj[id].IsGrounded

C15_DeadPlayersFrozen == [][C15_DeadStep]_vars

\* the physics loop of a tick has passed over a player that was killed in
\* mid-jump
C15_Witness ==
  /\ tkPC = "physics"
  /\ \E id \in tkSnap \ tkTodo :
       /\ ~playerObj[id].IsAlive
       /\ ~playerObj[id].IsGrounded
       /\ playerObj[id].VelocityY = JumpVelocity

\* C16: under any interleaving of AddPlayer, RemovePlayer, GetPlayer,
\* GetAllPlayers and GetPlayerCount calls, every call takes effect at one
\* instant: a writer is never inside g.mu together with anybody else, the
\* slice GetAllPlayers returns holds exactly the players the map held at one
\* instant of the call, GetPlayerCount returns the number of identities the
\* map held at one instant of the call, AddPlayer and RemovePlayer change
\* the map by their own identity only, and what a call returned is not
\* altered while its caller holds it, whatever is added or removed later.
C16_Exclusion ==
  regWriter # NoCaller => regReaders = {}

C16_Returned ==
  \A c \in RegCallers :
    rCall[c].pc = "ret" =>
      /\ rCall[c].op = "GetAllPlayers" => rCall[c].val \in rCall[c].inst
      /\ rCall[c].op = "GetPlayerCount" =>
           \E i \in rCall[c].inst : rCall[c].val = Cardinality(i)
      /\ rCall[c].op = "GetPlayer" =>
           \E i \in rCall[c].inst :
             rCall[c].val = IF rCall[c].arg \in i THEN rCall[c].arg ELSE NilPlayer
      /\ rCall[c].op = "AddPlayer" =>
           rCall[c].after = rCall[c].before \cup {rCall[c].arg}
      /\ rCall[c].op = "RemovePlayer" =>
           rCall[c].after = rCall[c].before \ {rCall[c].arg}

C16_SnapshotKept ==
  \A c \in RegCallers :
    (rCall[c].pc = "ret" /\ rCall'[c].pc = "ret") => rCall'[c] = rCall[c]

C16_AtomicRegistry ==
  [](C16_Exclusion /\ C16_Returned) /\ [][C16_SnapshotKept]_vars

\* a snapshot of two players is held by its caller while another caller has
\* removed one of them from the map
C16_Witness ==
  \E c \in RegCallers :
    /\ rCall[c].pc = "ret"
    /\ rCall[c].op = "GetAllPlayers"
    /\ Cardinality(rCall[c].val) = 2
    /\ Cardinality(players) = 1
    /\ \E k \in RegCallers \ {c} : rCall[k].pc = "ret" /\ rCall[k].op = "RemovePlayer"

\* C17: GetPlayer for an identity that is not in the map returns nil,
\* RemovePlayer for an identity that is not in the map leaves the map as it
\* was, and a call that is inside the lock can always take its next step.
C17_Step(c) ==
  \/ Reg_AddPlayer(c)
  \/ Reg_RemovePlayer(c)
  \/ Reg_GetPlayer(c)
  \/ Reg_GetPlayerCount(c)
  \/ Reg_GetAllPlayers_Return(c)
  \/ \E id \in PlayerIDs : Reg_GetAllPlayers_Append(c, id)

C17_AbsentIsHarmless ==
  \A c \in RegCallers :
    /\ (rCall[c].pc = "ret" /\ rCall[c].op = "GetPlayer"
          /\ rCall[c].arg \notin rCall[c].before)
         => rCall[c].val = NilPlayer
    /\ (rCall[c].pc = "ret" /\ rCall[c].op = "RemovePlayer"
          /\ rCall[c].arg \notin rCall[c].before)
         => rCall[c].after = rCall[c].before
    /\ rCall[c].pc \in {"locked", "rlocked"} => ENABLED C17_Step(c)

\* one caller has looked up and another has removed an identity that the
\* map, holding another player, does not hold
C17_Witness ==
  \E c, k \in RegCallers :
    /\ rCall[c].pc = "ret" /\ rCall[c].op = "GetPlayer"
    /\ rCall[c].arg \notin rCall[c].before
    /\ rCall[k].pc = "ret" /\ rCall[k].op = "RemovePlayer"
    /\ rCall[k].arg \notin rCall[k].before
    /\ players # {}

\* C18: however the joins of the sessions interleave, no identity is given
\* to two joins, the identities given so far are exactly 1 up to the
\* counter, each join is given an identity greater than every identity
\* given before it (1 for the first), and so an identity whose player has
\* disconnected is never given again.
C18_Given == UNION {sJoined[s] : s \in Sessions}

C18_Distinct ==
  /\ \A s, t \in Sessions : s # t => sJoined[s] \cap sJoined[t] = {}
  /\ C18_Given = 1..playerIDCounter
  /\ players \subseteq C18_Given

C18_JoinStep ==
  \A s \in Sessions :
    (sPC[s] = "read" /\ sPC'[s] = "welcome") =>
      /\ sJoinID'[s] \notin C18_Given
      /\ \A j \in C18_Given : sJoinID'[s] > j
      /\ C18_Given = {} => sJoinID'[s] = 1
      /\ sJoined' = [sJoined EXCEPT ![s] = @ \cup {sJoinID'[s]}]

C18_UniqueIncreasingIDs ==
  []C18_Distinct /\ [][C18_JoinStep]_vars

\* a join is given identity 2 after the player with identity 1 has
\* disconnected and left the registry
C18_Witness ==
  \E s, t \in Sessions :
    /\ s # t
    /\ sPC[s] = "done" /\ 1 \in sJoined[s] /\ 1 \notin players
    /\ sPC[t] = "welcome" /\ sJoinID[t] = 2 /\ players = {2}

\* C19: a join adds to the registry exactly one player, under the identity
\* the join was given, at X = 100, Y = 440 with VelocityY = 0, grounded and
\* alive, and changes no other player; once the welcome has been sent the
\* player is registered and has no hub connection yet, and AddClient then
\* registers exactly one, empty and open, connection under that identity
\* and touches no other connection.
C19_JoinStep ==
  \A s \in Sessions :
    (sPC[s] = "read" /\ sPC'[s] = "welcome") =>
      /\ sJoinID'[s] \notin players
      /\ players' = players \cup {sJoinID'[s]}
      /\ playerObj'[sJoinID'[s]] =
           [ID |-> sJoinID'[s], X |-> 100, Y |-> 440, VelocityY |-> 0,
            IsGrounded |-> TRUE, IsAlive |-> TRUE]
      /\ \A k \in PlayerIDs \ {sJoinID'[s]} : playerObj'[k] = playerObj[k]
      /\ clients' = clients

C19_Welcomed ==
  \A s \in Sessions :
    sPC[s] = "add_client" =>
      /\ sPlayerID[s] \in sJoined[s]
      /\ sPlayerID[s] \in players
      /\ sPlayerID[s] \notin clients

C19_AddClientStep ==
  \A s \in Sessions :
    (sPC[s] = "add_client" /\ sPC'[s] = "read") =>
      /\ clients' = clients \cup {sPlayerID[s]}
      /\ conn'[sPlayerID[s]] = [SendChan |-> <<>>, closed |-> FALSE]
      /\ \A k \in PlayerIDs \ {sPlayerID[s]} : conn'[k] = conn[k]
      /\ players' = players

C20_Step ==
  \A c \in Callers :
    (cmPC[c] = "clean_locked" /\ cmPC'[c] = "idle") =>
      LET m == cmArg[c].m
          trailing == cmArg[c].x \div 5000
          kept == {k \in DOMAIN chunks[m] : k >= trailing - cmArg[c].kb}
      IN /\ DOMAIN chunks'[m] = kept
         /\ \A k \in kept : chunks'[m][k] = chunks[m][k]
         /\ \A k \in DOMAIN chunks[m] :
              (trailing - k <= cmArg[c].kb) => k \in DOMAIN chunks'[m]
         /\ \A k \in DOMAIN chunks[m] \ kept : k < trailing - cmArg[c].kb
         /\ \A o \in Managers \ {m} : chunks'[o] = chunks[o]

C20_CleanupExact == [][C20_Step]_vars

\* chunks 0 and 1 were generated once each and a cleanup has removed
\* chunk 0 and kept chunk 1
C20_Witness ==
  \E m \in Managers :
    /\ cmEvictCount[m][0] = 1
    /\ cmEvictCount[m][1] = 0
    /\ cmGenCount[m][0] = 1
    /\ cmGenCount[m][1] = 1
    /\ DOMAIN chunks[m] = {1}
    /\ \A c \in Callers : cmPC[c] = "idle"

\* C21 (as claimed): for 0 <= startX < endX, the slice GetChunksInRange
\* returns holds, in ascending index order, exactly the chunks whose extent
\* [i*5000, (i+1)*5000) overlaps the half-open interval [startX, endX).
C21_Overlapping(startX, endX) ==
  {i \in 0..(MaxChunkID + 1) : i * 5000 < endX /\ (i + 1) * 5000 > startX}

C21_RangeExact ==
  (rg.pc = "ret" /\ 0 <= rg.startX /\ rg.startX < rg.endX) =>
    /\ \A i \in 1..(Len(rg.chunks) - 1) : rg.chunks[i].ID < rg.chunks[i + 1].ID
    /\ {rg.chunks[i].ID : i \in 1..Len(rg.chunks)} = C21_Overlapping(rg.startX, rg.endX)

\* C22: GetChunksInRange with startX >= endX returns an empty slice and
\* neither generates nor caches a chunk: the call is over in one step, and
\* the cache and the generation counts are as the call found them.
C22_Returned ==
  (rg.pc = "ret" /\ rg.startX >= rg.endX) =>
    /\ rg.chunks = <<>>
    /\ chunks[ServerCM] = rg.before

C22_Step ==
  (rg.pc = "idle" /\ rg'.pc # "idle" /\ rg'.startX >= rg'.endX) =>
    /\ rg'.pc = "ret"
    /\ chunks' = chunks
    /\ cmGenCount' = cmGenCount

C22_EmptyRange == []C22_Returned /\ [][C22_Step]_vars

\* a call with startX = endX inside a chunk that is not cached has returned
C22_Witness ==
  /\ rg.pc = "ret"
  /\ rg.startX = rg.endX
  /\ rg.startX = 1000
  /\ 0 \notin DOMAIN chunks[ServerCM]
  /\ rg.chunks = <<>>

\* C23: a live player at Y = 0 with VelocityY = 0 that gets no jump is,
\* after finitely many ticks, grounded at Y = 440 (jump requests made on
\* the way down have no effect on it); and every tick of a live player that
\* is grounded at Y = 440 with VelocityY = 0 leaves it exactly so, which
\* lasts until a jump is applied.
C23_AtRest ==
  pl.IsGrounded /\ pl.Y = 440 /\ pl.VelocityY = 0

C23_RestStep ==
  (C23_AtRest /\ pl.IsAlive /\ plOp' = "Tick" /\ plPrev' = pl) => pl' = pl

C23_AirStep ==
  (~pl.IsGrounded /\ plOp' = "Jump" /\ plPrev' = pl) => pl' = pl

C23_FallsToRest ==
  /\ (pl.Y = 0 /\ pl.VelocityY = 0 /\ pl.IsAlive /\ ~pl.IsGrounded) ~> C23_AtRest
  /\ [][C23_RestStep /\ C23_AirStep]_vars

\* the tick that lands the fall from Y = 0: the seventeenth, from Y = 408
\* with VelocityY = 960
C23_Witness ==
  /\ plOp = "Tick"
  /\ C23_AtRest
  /\ plPrev.Y = 408
  /\ plPrev.VelocityY = 960
  /\ ~plPrev.IsGrounded

\* C24 (as claimed): a jump request for an alive, grounded player shows
\* after the next tick, whenever the request arrives relative to the tick:
\* when the first physics update that starts after Jump has returned is
\* over, the player's Y is smaller than 440 and IsGrounded is false.
C24_JumpObserved ==
  jpObs = "ticked" => (pl.Y < 440 /\ ~pl.IsGrounded)

\* C25 (as claimed): every client that joins the server gets the same
\* master seed in its welcome message.
C25_SameSeed ==
  \A s, t \in Sessions :
    (sSeed[s] # NoSeed /\ sSeed[t] # NoSeed) => sSeed[s] = sSeed[t]

\* C26 (as claimed): for every input, sanitizePlayerName returns a name
\* that is not empty and has at most 30 characters.
C26_BoundedName ==
  nm.pc = "ret" => (Len(nm.out) >= 1 /\ Len(nm.out) <= 30)

\* C27 (as claimed): the kinematic fields X, Y and VelocityY of a player
\* are written by the ticker only: every step that changes one of them is a
\* step of the ticker's physics update, never one of the session handler.
C27_KinematicStep ==
  (pl'.X # pl.X \/ pl'.Y # pl.Y \/ pl'.VelocityY # pl.VelocityY) => phPC' # phPC

C27_TickerOnlyWrites == [][C27_KinematicStep]_vars

\* C28 (as claimed): every message that reaches a client's transport is
\* written by the hub writer task of that connection: a welcome reaches the
\* client of a session only in a step of a writer started for that session,
\* and the session handler is never at a write on a transport on which a
\* writer has a message to write.
C28_WriteStep ==
  \A s \in Sessions :
    sSeed'[s] # sSeed[s] => \E id \in sJoined[s] : wPC'[id] # wPC[id]

C28_OneWriterAtATime ==
  \A s \in Sessions :
    sPC[s] = "welcome" =>
      \A id \in sJoined[s] \cap clients : conn[id].SendChan = <<>>

C28_HubWritesAll == []C28_OneWriterAtATime /\ [][C28_WriteStep]_vars

\* C29: the ticker broadcasts at most one chunk per tick, the indices of
\* the chunks it broadcasts are strictly increasing over its lifetime (no
\* index is broadcast twice), and the last-broadcast index never decreases:
\* it is the index of the latest broadcast, or -1 before the first.
C29_LogIncreasing ==
  \A i, j \in 1..Len(tkChunkLog) :
    i < j => (tkChunkLog[i].id < tkChunkLog[j].id /\ tkChunkLog[i].tick < tkChunkLog[j].tick)

C29_LastIsLatest ==
  lastBroadcastedChunk =
    IF tkChunkLog = <<>> THEN -1 ELSE tkChunkLog[Len(tkChunkLog)].id

C29_Step ==
  /\ lastBroadcastedChunk' >= lastBroadcastedChunk
  /\ tkChunkLog' # tkChunkLog =>
       /\ bcMsg'.E = "chunk"
       /\ bcMsg'.ID = lastBroadcastedChunk'
       /\ tkChunkLog' = Append(tkChunkLog, [tick |-> tickCount, id |-> bcMsg'.ID])

C29_OneIncreasingChunkPerTick ==
  [](C29_LogIncreasing /\ C29_LastIsLatest) /\ [][C29_Step]_vars

\* two chunks were broadcast, then a whole tick ran with the lead player
\* fallen back behind the last broadcast index and broadcast none
C29_Witness ==
  /\ Len(tkChunkLog) >= 2
  /\ tkPC = "idle"
  /\ tickCount > tkChunkLog[Len(tkChunkLog)].tick
  /\ \A id \in players : ChunkIDOf(playerObj[id].X) + 1 < lastBroadcastedChunk

\* C30: for each connection, the state messages its write goroutine
\* writes are a subsequence of the ticks' state messages in tick order: the
\* time stamps written are stamps of ticks that ran, and a message of an
\* earlier tick is never written after a message of a later tick.
C30_WrittenInTickOrder ==
  \A id \in PlayerIDs :
    /\ \A i \in 1..Len(wLog[id]) : wLog[id][i] \in 1..now
    /\ \A i, j \in 1..Len(wLog[id]) : i < j => wLog[id][i] < wLog[id][j]

\* a connection whose queue was full when a tick broadcast, so that the
\* tick's message was dropped, and whose write goroutine wrote the message
\* of the tick before and then the message of the tick after
C30_Witness ==
  \E id \in PlayerIDs : \E i \in 1..Len(wLog[id]) :
    /\ i > 1
    /\ wLog[id][i] = wLog[id][i - 1] + 2

\* C31: after RemoveClient has closed a connection's send channel and
\* deleted it from the hub, the connection's write goroutine eventually
\* terminates.
C31_Removed(id) == wPC[id] # "none" /\ id \notin clients

C31_WriterTerminates ==
  \A id \in LiveClients : C31_Removed(id) ~> (wPC[id] = "exited")

\* a write goroutine that was still running when its connection was
\* removed with messages left in the channel, and has exited since
C31_Witness ==
  \E id \in LiveClients :
    /\ C31_Removed(id)
    /\ conn[id].closed
    /\ conn[id].SendChan # <<>>
    /\ wPC[id] = "exited"

\* C32 (as claimed): a panic while one player's physics is processed is
\* isolated to that player: the tick still processes the remaining players
\* and broadcasts the state, and the ticker returns to wait for the next
\* tick.
C32_FaultIsolated ==
  (tkPC = "crashed") ~> (tkPC = "idle" /\ tkTodo = {} /\ tkStateCalls = tickCount)

\* C33 (as claimed): a player starting at Y = 0 with VelocityY = 0 has
\* Y = 3 and VelocityY = 60 after tick 1, Y = 9 and VelocityY = 120 after
\* tick 2, and is grounded at Y = 440 with VelocityY = 0 after tick 15.
C33_FallTable ==
  (plPrev.Y = 0 /\ plPrev.VelocityY = 0) =>
    /\ tickCount = 1 => (pl.Y = 3 /\ pl.VelocityY = 60)
    /\ tickCount = 2 => (pl.Y = 9 /\ pl.VelocityY = 120)
    /\ tickCount = 15 => (pl.Y = 440 /\ pl.VelocityY = 0 /\ pl.IsGrounded)

\* C34 (as claimed): the state message a tick broadcasts contains exactly
\* the alive players of the registry snapshot the tick's physics loop
\* iterated over, also when joins or disconnects happen during the tick.
C34_Step ==
  (tkPC = "tick_state" /\ bcMsg'.E = "state") =>
    {e.I : e \in bcMsg'.P} = {i \in tkSnap : playerObj[i].IsAlive}

C34_StateOfTickSnapshot == [][C34_Step]_vars

\* C35: no state or chunk message is written to a connection before its
\* welcome has been written: every write of a write goroutine goes to the
\* transport of a session whose welcome write has returned successfully.
C35_Welcomed(id) ==
  \E s \in Sessions : id \in sJoined[s] /\ sSeed[s] # NoSeed

C35_WriteStep(id) ==
  wPC[id] = "write" /\ wPC'[id] # "write" /\ ~conn[id].closed

C35_Step == \A id \in PlayerIDs : C35_WriteStep(id) => C35_Welcomed(id)

C36_ChunksSent(id) ==
  {i \in 1..Len(conn[id].SendChan) : conn[id].SendChan[i].E = "chunk"}

C36_NoCatchUp ==
  \A id \in PlayerIDs :
    /\ \A i \in C36_ChunksSent(id) : conn[id].SendChan[i].ID > regAfter[id]
    /\ \A i, j \in C36_ChunksSent(id) :
         i < j => conn[id].SendChan[i].ID < conn[id].SendChan[j].ID

\* a connection that registered after chunk 1 was broadcast and was sent a
\* later chunk since
C36_Witness ==
  \E id \in PlayerIDs :
    /\ regAfter[id] >= 1
    /\ C36_ChunksSent(id) # {}

\* C37: every chunk the ticker broadcasts has index floor(leadX / 5000) + 1
\* for the lead position of the tick's snapshot; chunk 0, which holds the
\* spawn point X = 100, is never broadcast.
C37_IsLead(i) == i \in tkSnap /\ \A j \in tkSnap : playerObj[j].X <= playerObj[i].X

C37_Step ==
  tkChunkLog' # tkChunkLog =>
    /\ bcMsg'.E = "chunk"
    /\ bcMsg'.ID = tkChunkLog'[Len(tkChunkLog')].id
    /\ \E i \in PlayerIDs :
         /\ C37_IsLead(i)
         /\ bcMsg'.ID = (playerObj[i].X \div 5000) + 1

C37_NextChunkOnly ==
  /\ [](\A i \in 1..Len(tkChunkLog) : tkChunkLog[i].id >= 1)
  /\ [](bcMsg.E = "chunk" => bcMsg.ID # 0)
  /\ [][C37_Step]_vars

\* chunk 1 was broadcast for a lead player at the spawn point, and chunk 3
\* for a lead player in chunk 2
C37_Witness ==
  /\ Len(tkChunkLog) >= 2
  /\ tkChunkLog[1].id = 1
  /\ tkChunkLog[Len(tkChunkLog)].id = 3

\* C38: after any sequence of calls, the chunk a manager returns for index
\* i has the ID and the obstacle list of GenerateChunk(masterSeed, i), also
\* when index i was evicted and generated again, and the cache holds under
\* key i only a chunk whose ID is i.
C38_CacheIsGenerator ==
  /\ \A e \in cmLog :
       /\ e.chunk.ID = e.id
       /\ e.chunk.Obstacles = GenerateChunk(cmSeed[e.m], e.id).Obstacles
  /\ \A m \in Managers : \A k \in DOMAIN chunks[m] : chunks[m][k].ID = k

\* a call returned the second instance of a chunk, generated after the
\* first was evicted
C38_Witness ==
  \E e \in cmLog : e.chunk.inst >= 2 /\ cmEvictCount[e.m][e.id] >= 1

\* C39 (as claimed): when a tick's physics update of an alive player
\* returns, the player has Y <= 440 and is grounded exactly when Y = 440,
\* in which case VelocityY = 0.
C39_Step ==
  (phPC # "idle" /\ phPC' = "idle") =>
    /\ pl'.Y <= 440
    /\ pl'.IsGrounded <=> (pl'.Y = 440)
    /\ pl'.Y = 440 => pl'.VelocityY = 0

C39_AfterPhysics == [][C39_Step]_vars

\* C40: a jump request received on a session changes at most the player
\* this session itself joined as (its current playerID, an identity one of
\* its own joins was given and no join of another session was); received
\* before the session has joined, it changes no player.
C40_Changed == {id \in PlayerIDs : playerObj'[id] # playerObj[id]}

C40_Step ==
  \A s \in Sessions :
    Session_Jump(s) =>
      /\ sPlayerID[s] = NoPlayer => C40_Changed = {}
      /\ \A id \in C40_Changed :
           /\ id = sPlayerID[s]
           /\ id \in sJoined[s]
           /\ \A t \in Sessions \ {s} : id \notin sJoined[t] /\ sPlayerID[t] # id

C40_JumpOwnPlayerOnly == [][C40_Step]_vars

\* session 1 has joined as player 1 and its jump has taken player 1 off the
\* ground, while the player of session 2 is registered and still at rest
C40_Witness ==
  /\ sPlayerID[1] = 1
  /\ sPlayerID[2] = 2
  /\ players = {1, 2}
  /\ playerObj[1].VelocityY = JumpVelocity
  /\ ~playerObj[1].IsGrounded
  /\ playerObj[2] = NewPlayer(2)

\* C5 (as claimed): consecutive obstacles of a generated chunk are at least
\* ObstacleSpacing apart.
C5_MinSpacing ==
  \A n \in 1..Len(genCalls) :
    \A i \in 1..(Len(genCalls[n].Obstacles) - 1) :
      genCalls[n].Obstacles[i + 1].X - genCalls[n].Obstacles[i].X >= ObstacleSpacing

\* C6: every obstacle of the chunk generated for index i has X in
\* [i*ChunkSize, (i+1)*ChunkSize), Y = 0 and a type in {1, 2, 3}.
C6_ObstacleBounds ==
  \A n \in 1..Len(genCalls) :
    /\ genCalls[n].ID = genChunkID
    /\ \A i \in 1..Len(genCalls[n].Obstacles) :
         LET o == genCalls[n].Obstacles[i]
         IN /\ genChunkID * ChunkSize <= o.X
            /\ o.X < (genChunkID + 1) * ChunkSize
            /\ o.Y = 0
            /\ o.Type \in {ObstacleTypeTall, ObstacleTypeLow, ObstacleTypeSpike}

\* a chunk other than chunk 0 has been generated with the maximum count
C6_Witness ==
  /\ genChunkID > 0
  /\ \E n \in 1..Len(genCalls) : Len(genCalls[n].Obstacles) = MaxObstaclesPerChunk

\* C7: every generated chunk holds between MinObstaclesPerChunk and
\* MaxObstaclesPerChunk obstacles.
C7_ObstacleCount ==
  \A n \in 1..Len(genCalls) :
    /\ Len(genCalls[n].Obstacles) >= MinObstaclesPerChunk
    /\ Len(genCalls[n].Obstacles) <= MaxObstaclesPerChunk

\* a chunk with the minimum count has been generated
C7_Witness ==
  \E n \in 1..Len(genCalls) : Len(genCalls[n].Obstacles) = MinObstaclesPerChunk

====
